---- MODULE Spec2Model ----
(***************************************************************************)
(* A model of chess-tools: the board snapshot (board.py), the attack and   *)
(* defence queries (attacks.py) and the move pre-analysis                  *)
(* (analyze_move.py).                                                      *)
(*                                                                         *)
(* Python objects live on two heaps: Board objects (boards) and the dicts  *)
(* their pieces attribute points to (dicts).  A query reads a Board value, *)
(* i.e. a Board object with its dict looked up (BoardValue).               *)
(***************************************************************************)
EXTENDS Integers, Sequences, FiniteSets, TLC

VARIABLES
    boards,       \* heap of Board objects: reference -> attributes
    dicts,        \* heap of dict objects:  reference -> dict
    after_board,  \* the reference simulate_move returned last, or NoRef
    result        \* what the last call returned, with the call's arguments

vars == <<boards, dicts, after_board, result>>

(***************************************************************************)
(* Bounds of the model.                                                    *)
(***************************************************************************)
\* At most this many pieces stand on a generated position.
MaxPieces == 2

\* Offsets passed to Square.offset range over -MaxDelta..MaxDelta.
MaxDelta == 9

(***************************************************************************)
(* board.py: Color, PieceType, Piece                                       *)
(***************************************************************************)
WHITE == "w"

BLACK == "b"

Colors == {WHITE, BLACK}

\* Python's None where a Color is optional (by_color=None).
NoColor == "None"

opposite(color) == IF color = WHITE THEN BLACK ELSE WHITE

PAWN == "p"

KNIGHT == "n"

BISHOP == "b"

ROOK == "r"

QUEEN == "q"

KING == "k"

PieceTypes == {PAWN, KNIGHT, BISHOP, ROOK, QUEEN, KING}

Piece(piece_type, color) == [piece_type |-> piece_type, color |-> color]

\* Python's None where a Piece is optional.
NoPiece == [piece_type |-> "None", color |-> "None"]

AllPieces == {Piece(t, c) : t \in PieceTypes, c \in Colors}

\* str.isupper / str.lower / str.upper on the FEN piece letters.
UpperOf == [p |-> "P", n |-> "N", b |-> "B", r |-> "R", q |-> "Q", k |-> "K"]

LowerOf == [P |-> "p", N |-> "n", B |-> "b", R |-> "r", Q |-> "q", K |-> "k",
            p |-> "p", n |-> "n", b |-> "b", r |-> "r", q |-> "q", k |-> "k"]

isupper(char) == char \in {"P", "N", "B", "R", "Q", "K"}

\* Piece.__str__
PieceStr(piece) ==
    IF piece.color = WHITE THEN UpperOf[piece.piece_type] ELSE piece.piece_type

\* Piece.from_char
from_char(char) ==
    Piece(LowerOf[char], IF isupper(char) THEN WHITE ELSE BLACK)

(***************************************************************************)
(* board.py: Square.  A square is its index, 0..63.                        *)
(***************************************************************************)
Squares == 0..63

\* Python's None where a Square is optional.
NoSquare == -1

file(square) == square % 8

rank(square) == square \div 8

FileChars == <<"a", "b", "c", "d", "e", "f", "g", "h">>

RankChars == <<"1", "2", "3", "4", "5", "6", "7", "8">>

\* int(char) for a decimal digit.
DigitValue == [c \in {"0", "1", "2", "3", "4", "5", "6", "7", "8", "9"} |->
                CASE c = "0" -> 0 [] c = "1" -> 1 [] c = "2" -> 2 [] c = "3" -> 3
                  [] c = "4" -> 4 [] c = "5" -> 5 [] c = "6" -> 6 [] c = "7" -> 7
                  [] c = "8" -> 8 [] c = "9" -> 9]

isdigit(char) == char \in DOMAIN DigitValue

\* ord(char.lower()) - ord('a') for a file letter.
FileValue == [c \in {"a", "b", "c", "d", "e", "f", "g", "h"} |->
                CHOOSE i \in 0..7 : FileChars[i + 1] = c]

\* Square.from_algebraic: name is a sequence of two characters.
from_algebraic(name) == (DigitValue[name[2]] - 1) * 8 + FileValue[name[1]]

\* Square.name
SquareName(square) == <<FileChars[file(square) + 1], RankChars[rank(square) + 1]>>

\* A faulty offset: the deltas are applied to the index, and only the index is
\* tested against the board.
offset_by_index(square, file_delta, rank_delta) ==
    LET new_index == square + rank_delta * 8 + file_delta
    IN  IF 0 <= new_index /\ new_index <= 63 THEN new_index ELSE NoSquare

\* Square.offset
offset(square, file_delta, rank_delta) ==
    LET new_file == file(square) + file_delta
        new_rank == rank(square) + rank_delta
    IN  IF 0 <= new_file /\ new_file <= 7 /\ 0 <= new_rank /\ new_rank <= 7
        THEN new_rank * 8 + new_file
        ELSE NoSquare

\* sq("e4")
sq(name) == from_algebraic(name)

\* The element of a one-element set: what a local variable holds once its
\* assignment has run.
Assigned(values) == CHOOSE v \in values : TRUE

(***************************************************************************)
(* A Python dict: its keys in insertion order and its key -> value map.    *)
(***************************************************************************)
EmptyDict == [keys |-> <<>>, vals |-> <<>>]

DictHas(d, k) == k \in DOMAIN d.vals

\* d[k] = v
DictSet(d, k, v) ==
    IF DictHas(d, k)
    THEN [d EXCEPT !.vals[k] = v]
    ELSE [keys |-> Append(d.keys, k), vals |-> d.vals @@ (k :> v)]

\* A faulty pop: d.get(k), which leaves k in the dict.
DictKeep(d, k) == d

\* d.pop(k, None): the dict without k.
DictPop(d, k) ==
    LET NotK(x) == x /= k
    IN  [keys |-> SelectSeq(d.keys, NotK),
         vals |-> [x \in DOMAIN d.vals \ {k} |-> d.vals[x]]]

\* d.items(), in insertion order.
DictItems(d) == [i \in 1..Len(d.keys) |-> <<d.keys[i], d.vals[d.keys[i]]>>]

\* d.copy(): a new dict with the same items.
DictCopy(d) == [keys |-> d.keys, vals |-> d.vals]

(***************************************************************************)
(* board.py: Board.  A Board value is the object's attributes, with the    *)
(* pieces dict itself in place of its reference.                           *)
(***************************************************************************)
\* Board.__init__
NewBoard(pieces) ==
    [pieces |-> pieces, turn |-> WHITE, castling_rights |-> "KQkq",
     en_passant |-> NoSquare, halfmove_clock |-> 0, fullmove_number |-> 1]

\* Board.get
get(board, square) ==
    IF DictHas(board.pieces, square) THEN board.pieces.vals[square] ELSE NoPiece

\* Board.set
set(board, square, piece) ==
    IF piece = NoPiece
    THEN [board EXCEPT !.pieces = DictPop(board.pieces, square)]
    ELSE [board EXCEPT !.pieces = DictSet(board.pieces, square, piece)]

\* Board.is_empty
is_empty(board, square) == ~DictHas(board.pieces, square)

\* Board.get_pieces_by_color: (square, piece) pairs in dict order.
get_pieces_by_color(board, color) ==
    LET OfColor(item) == item[2].color = color
    IN  SelectSeq(DictItems(board.pieces), OfColor)

\* Board.get_pieces_by_type
get_pieces_by_type(board, piece_type, color) ==
    LET Wanted(item) ==
            /\ item[2].piece_type = piece_type
            /\ (color = NoColor \/ item[2].color = color)
    IN  SelectSeq(DictItems(board.pieces), Wanted)

\* Board.find_king
find_king(board, color) ==
    LET kings == get_pieces_by_type(board, KING, color)
    IN  IF Len(kings) > 0 THEN kings[1][1] ELSE NoSquare

\* int(text) for a sequence of decimal digits.
RECURSIVE ParseInt(_)
ParseInt(text) ==
    IF Len(text) = 0 THEN 0
    ELSE ParseInt(SubSeq(text, 1, Len(text) - 1)) * 10 + DigitValue[text[Len(text)]]

\* One pass of the piece-placement loop of Board.from_fen: st holds the
\* loop's rank, file and board.pieces.
ParseChar(st, char) ==
    IF char = "/"
    THEN [st EXCEPT !.rank = st.rank - 1, !.file = 0]
    ELSE IF isdigit(char)
    THEN [st EXCEPT !.file = st.file + DigitValue[char]]
    ELSE [st EXCEPT !.pieces = DictSet(st.pieces, st.rank * 8 + st.file,
                                       from_char(char)),
                    !.file = st.file + 1]

\* The piece-placement loop over the characters lo..hi, in order (halved, so
\* that the evaluation nests to a depth logarithmic in the length).
RECURSIVE ParsePlacement(_, _, _, _)
ParsePlacement(placement, lo, hi, st) ==
    IF lo > hi THEN st
    ELSE IF lo = hi THEN ParseChar(st, placement[lo])
    ELSE LET mid == (lo + hi) \div 2
         IN  Assigned({ParsePlacement(placement, mid + 1, hi, left) :
                         left \in {ParsePlacement(placement, lo, mid, st)}})

\* Board.from_fen.  parts is fen.split(): the placement, the ep square and the
\* two counters are sequences of characters, turn and castling are strings.
from_fen(parts) ==
    [pieces |-> ParsePlacement(parts[1], 1, Len(parts[1]),
                                [rank |-> 7, file |-> 0, pieces |-> EmptyDict]).pieces,
     turn |-> IF Len(parts) > 1
              THEN (IF parts[2] = "w" THEN WHITE ELSE BLACK) ELSE WHITE,
     castling_rights |-> IF Len(parts) > 2
                         THEN (IF parts[3] /= "-" THEN parts[3] ELSE "") ELSE "KQkq",
     en_passant |-> IF Len(parts) > 3 /\ parts[4] /= <<"-">>
                    THEN from_algebraic(parts[4]) ELSE NoSquare,
     halfmove_clock |-> IF Len(parts) > 4 THEN ParseInt(parts[5]) ELSE 0,
     fullmove_number |-> IF Len(parts) > 5 THEN ParseInt(parts[6]) ELSE 1]

\* str(n) for 0 <= n <= 99.
IntStr(n) ==
    LET digits == <<"0", "1", "2", "3", "4", "5", "6", "7", "8", "9">>
    IN  IF n < 10 THEN <<digits[n + 1]>>
        ELSE <<digits[(n \div 10) + 1], digits[(n % 10) + 1]>>

\* One rank of Board.to_fen's placement, from file file_ on.
RECURSIVE FenRow(_, _, _, _, _)
FenRow(board, rank_, file_, row, empty_count) ==
    IF file_ > 7
    THEN (IF empty_count > 0 THEN row \o IntStr(empty_count) ELSE row)
    ELSE LET piece == get(board, rank_ * 8 + file_)
         IN  IF piece /= NoPiece
             THEN FenRow(board, rank_, file_ + 1,
                         (IF empty_count > 0 THEN row \o IntStr(empty_count) ELSE row)
                             \o <<PieceStr(piece)>>, 0)
             ELSE FenRow(board, rank_, file_ + 1, row, empty_count + 1)

\* "/".join(rows) of Board.to_fen, from rank rank_ down.
RECURSIVE FenRows(_, _)
FenRows(board, rank_) ==
    IF rank_ = 0 THEN FenRow(board, 0, 0, <<>>, 0)
    ELSE FenRow(board, rank_, 0, <<>>, 0) \o <<"/">> \o FenRows(board, rank_ - 1)

\* Board.to_fen, as the parts its text splits into.
to_fen(board) ==
    <<FenRows(board, 7),
      board.turn,
      IF board.castling_rights /= "" THEN board.castling_rights ELSE "-",
      IF board.en_passant /= NoSquare THEN SquareName(board.en_passant) ELSE <<"-">>,
      IntStr(board.halfmove_clock),
      IntStr(board.fullmove_number)>>

(***************************************************************************)
(* attacks.py: movement patterns                                           *)
(***************************************************************************)
KNIGHT_OFFSETS ==
    << <<1, 2>>, <<2, 1>>, <<2, -1>>, <<1, -2>>,
       <<-1, -2>>, <<-2, -1>>, <<-2, 1>>, <<-1, 2>> >>

KING_OFFSETS ==
    << <<0, 1>>, <<1, 1>>, <<1, 0>>, <<1, -1>>,
       <<0, -1>>, <<-1, -1>>, <<-1, 0>>, <<-1, 1>> >>

BISHOP_DIRECTIONS == << <<1, 1>>, <<1, -1>>, <<-1, 1>>, <<-1, -1>> >>

ROOK_DIRECTIONS == << <<0, 1>>, <<0, -1>>, <<1, 0>>, <<-1, 0>> >>

QUEEN_DIRECTIONS == BISHOP_DIRECTIONS \o ROOK_DIRECTIONS

\* A faulty pawn loop: the rank directions of the two colours exchanged.
PAWN_ATTACKER_DIRS_forward == << <<WHITE, 1>>, <<BLACK, -1>> >>

\* The (color, rank_dir) pairs the pawn loop of get_attackers runs over.
PAWN_ATTACKER_DIRS == << <<WHITE, -1>>, <<BLACK, 1>> >>

\* The file_dir values of the pawn loops.
PAWN_FILE_DIRS == <<-1, 1>>

\* The concatenation of a sequence of sequences.
RECURSIVE Flatten(_)
Flatten(seqs) ==
    IF Len(seqs) = 0 THEN <<>> ELSE Head(seqs) \o Flatten(Tail(seqs))

\* The set of a sequence's elements.
Range(seq) == {seq[i] : i \in 1..Len(seq)}

(***************************************************************************)
(* attacks.py: get_attackers                                               *)
(***************************************************************************)
\* The knight loop and the king loop: pieces of piece_type on target + offset.
OffsetAttackers(board, target, by_color, offsets, piece_type) ==
    LET Probe(off) ==
            LET attacker_sq == offset(target, off[1], off[2])
            IN  IF /\ attacker_sq /= NoSquare
                   /\ get(board, attacker_sq) /= NoPiece
                   /\ get(board, attacker_sq).piece_type = piece_type
                   /\ (by_color = NoColor \/ get(board, attacker_sq).color = by_color)
                THEN << <<attacker_sq, get(board, attacker_sq)>> >>
                ELSE <<>>
    IN  Flatten([i \in 1..Len(offsets) |-> Probe(offsets[i])])

\* The pawn loop.
PawnAttackers(board, target, by_color) ==
    LET ForColor(cd) ==
            LET color == cd[1]
                rank_dir == cd[2]
                Probe(file_dir) ==
                    LET attacker_sq == offset(target, file_dir, rank_dir)
                    IN  IF /\ attacker_sq /= NoSquare
                           /\ get(board, attacker_sq) /= NoPiece
                           /\ get(board, attacker_sq).piece_type = PAWN
                           /\ get(board, attacker_sq).color = color
                        THEN << <<attacker_sq, get(board, attacker_sq)>> >>
                        ELSE <<>>
            IN  IF by_color /= NoColor /\ by_color /= color
                THEN <<>>
                ELSE Flatten([i \in 1..Len(PAWN_FILE_DIRS) |-> Probe(PAWN_FILE_DIRS[i])])
    IN  Flatten([i \in 1..Len(PAWN_ATTACKER_DIRS) |-> ForColor(PAWN_ATTACKER_DIRS[i])])

\* A faulty walk: only a bishop, rook or queen ends it, any other piece is
\* looked through.
RECURSIVE SlidingWalkThrough(_, _, _, _)
SlidingWalkThrough(board, current, dx, dy) ==
    LET next_sq == offset(current, dx, dy)
    IN  IF next_sq = NoSquare THEN NoSquare
        ELSE IF get(board, next_sq).piece_type \in {BISHOP, ROOK, QUEEN} THEN next_sq
        ELSE SlidingWalkThrough(board, next_sq, dx, dy)

\* The while loop of check_sliding: the square it breaks on walking from
\* current in direction (dx, dy), i.e. the first occupied one, or NoSquare when
\* it leaves the board.
RECURSIVE SlidingWalk(_, _, _, _)
SlidingWalk(board, current, dx, dy) ==
    LET next_sq == offset(current, dx, dy)
    IN  IF next_sq = NoSquare THEN NoSquare
        ELSE IF ~is_empty(board, next_sq) THEN next_sq
        ELSE SlidingWalk(board, next_sq, dx, dy)

\* A faulty check_sliding: the colour filter is not applied.
SlidingRecordUnfiltered(board, next_sq, by_color, valid_types) ==
    IF /\ next_sq /= NoSquare
       /\ get(board, next_sq).piece_type \in valid_types
    THEN << <<next_sq, get(board, next_sq)>> >>
    ELSE <<>>

\* What check_sliding appends for the square a walk broke on.
SlidingRecord(board, next_sq, by_color, valid_types) ==
    IF /\ next_sq /= NoSquare
       /\ get(board, next_sq).piece_type \in valid_types
       /\ (by_color = NoColor \/ get(board, next_sq).color = by_color)
    THEN << <<next_sq, get(board, next_sq)>> >>
    ELSE <<>>

\* get_attackers.check_sliding
check_sliding(board, target, by_color, directions, valid_types) ==
    LET Ray(d) == SlidingRecord(board, SlidingWalk(board, target, d[1], d[2]),
                                by_color, valid_types)
    IN  Flatten([i \in 1..Len(directions) |-> Ray(directions[i])])

get_attackers(board, target, by_color) ==
    OffsetAttackers(board, target, by_color, KNIGHT_OFFSETS, KNIGHT)
    \o OffsetAttackers(board, target, by_color, KING_OFFSETS, KING)
    \o PawnAttackers(board, target, by_color)
    \o check_sliding(board, target, by_color, BISHOP_DIRECTIONS, {BISHOP, QUEEN})
    \o check_sliding(board, target, by_color, ROOK_DIRECTIONS, {ROOK, QUEEN})

\* A faulty get_defenders: the scan is filtered by the opponent's colour.
get_defenders_enemy(board, target) ==
    LET piece == get(board, target)
    IN  IF piece = NoPiece THEN <<>>
        ELSE get_attackers(board, target, opposite(piece.color))

get_defenders(board, target) ==
    LET piece == get(board, target)
    IN  IF piece = NoPiece THEN <<>>
        ELSE get_attackers(board, target, piece.color)

is_attacked(board, target, by_color) ==
    Len(get_attackers(board, target, by_color)) > 0

is_defended(board, target) == Len(get_defenders(board, target)) > 0

\* A faulty is_hanging: the defenders are not consulted.
is_hanging_attacked(board, target) ==
    LET piece == get(board, target)
    IN  IF piece = NoPiece THEN FALSE
        ELSE Len(get_attackers(board, target, opposite(piece.color))) > 0

is_hanging(board, target) ==
    LET piece == get(board, target)
    IN  IF piece = NoPiece THEN FALSE
        ELSE LET enemy_color == opposite(piece.color)
                 attackers == get_attackers(board, target, enemy_color)
                 defenders == get_defenders(board, target)
             IN  Len(attackers) > 0 /\ Len(defenders) = 0

\* A faulty is_protected: the defenders have to outnumber the attackers.
is_protected_strict(board, target) ==
    LET piece == get(board, target)
    IN  IF piece = NoPiece THEN TRUE
        ELSE Len(get_defenders(board, target))
               > Len(get_attackers(board, target, opposite(piece.color)))

is_protected(board, target) ==
    LET piece == get(board, target)
    IN  IF piece = NoPiece THEN TRUE
        ELSE LET enemy_color == opposite(piece.color)
                 attackers == get_attackers(board, target, enemy_color)
                 defenders == get_defenders(board, target)
             IN  Len(defenders) >= Len(attackers)

attack_count(board, target, by_color) == Len(get_attackers(board, target, by_color))

defense_count(board, target) == Len(get_defenders(board, target))

(***************************************************************************)
(* attacks.py: get_attacked_by_piece                                       *)
(***************************************************************************)
\* The knight loop and the king loop: the squares from_square + offset.
OffsetTargets(from_square, offsets) ==
    {offset(from_square, offsets[i][1], offsets[i][2]) : i \in 1..Len(offsets)}
        \ {NoSquare}

\* A faulty walk: no piece ends it, it runs to the edge of the board.
RECURSIVE AttackedWalkToEdge(_, _, _, _)
AttackedWalkToEdge(board, current, dx, dy) ==
    LET target == offset(current, dx, dy)
    IN  IF target = NoSquare THEN {}
        ELSE {target} \cup AttackedWalkToEdge(board, target, dx, dy)

\* A faulty walk: it ends in front of the first occupied square and leaves
\* that square out.
RECURSIVE AttackedWalkEmpty(_, _, _, _)
AttackedWalkEmpty(board, current, dx, dy) ==
    LET target == offset(current, dx, dy)
    IN  IF target = NoSquare THEN {}
        ELSE IF get(board, target) /= NoPiece THEN {}
        ELSE {target} \cup AttackedWalkEmpty(board, target, dx, dy)

\* A while loop of get_attacked_by_piece: the squares it adds walking from
\* current in direction (dx, dy).
RECURSIVE AttackedWalk(_, _, _, _)
AttackedWalk(board, current, dx, dy) ==
    LET target == offset(current, dx, dy)
    IN  IF target = NoSquare THEN {}
        ELSE IF get(board, target) /= NoPiece THEN {target}
        ELSE {target} \cup AttackedWalk(board, target, dx, dy)

\* The squares added along every direction of directions.
AttackedRays(board, from_square, directions) ==
    UNION {AttackedWalk(board, from_square, directions[i][1], directions[i][2]) :
             i \in 1..Len(directions)}

get_attacked_by_piece(board, from_square, piece) ==
    LET first ==
            IF piece.piece_type = KNIGHT THEN OffsetTargets(from_square, KNIGHT_OFFSETS)
            ELSE IF piece.piece_type = KING THEN OffsetTargets(from_square, KING_OFFSETS)
            ELSE IF piece.piece_type = PAWN
            THEN LET rank_dir == IF piece.color = WHITE THEN 1 ELSE -1
                 IN  {offset(from_square, PAWN_FILE_DIRS[i], rank_dir) :
                        i \in 1..Len(PAWN_FILE_DIRS)} \ {NoSquare}
            ELSE IF piece.piece_type \in {BISHOP, QUEEN}
            THEN AttackedRays(board, from_square, BISHOP_DIRECTIONS)
            ELSE {}
        second ==
            IF piece.piece_type \in {ROOK, QUEEN}
            THEN AttackedRays(board, from_square, ROOK_DIRECTIONS)
            ELSE {}
    IN  first \cup second

get_all_attacked_squares(board, by_color) ==
    UNION {get_attacked_by_piece(board, s, board.pieces.vals[s]) :
             s \in {x \in DOMAIN board.pieces.vals : board.pieces.vals[x].color = by_color}}

find_hanging_pieces(board, color) ==
    LET Hanging(item) == is_hanging(board, item[1])
    IN  SelectSeq(get_pieces_by_color(board, color), Hanging)

find_undefended_pieces(board, color) ==
    LET Undefended(item) == ~is_defended(board, item[1])
    IN  SelectSeq(get_pieces_by_color(board, color), Undefended)

(***************************************************************************)
(* The heaps.                                                              *)
(***************************************************************************)
\* Python's None where a Board is optional.
NoRef == 0

\* The caller's Board: board = Board.from_fen(fen).
board == 1

\* A reference no object of the heap has.
Alloc(heap) ==
    CHOOSE r \in 1..(Cardinality(DOMAIN heap) + 1) :
        /\ r \notin DOMAIN heap
        /\ \A q \in 1..(r - 1) : q \in DOMAIN heap

\* The Board object ref as a Board value.
BoardValue(bs, ds, ref) == [bs[ref] EXCEPT !.pieces = ds[bs[ref].pieces]]

\* What reference counting leaves of the heaps once only the Board objects
\* roots are referenced.
Collect(bs, ds, roots) ==
    [boards |-> [r \in DOMAIN bs \cap roots |-> bs[r]],
     dicts |-> [r \in {bs[b].pieces : b \in DOMAIN bs \cap roots} |-> ds[r]]]

(***************************************************************************)
(* analyze_move.py                                                         *)
(***************************************************************************)
PIECE_VALUES == [p |-> 1, n |-> 3, b |-> 3, r |-> 5, q |-> 9, k |-> 1000]

get_piece_value(piece) == PIECE_VALUES[piece.piece_type]

\* Board(): a new Board object with a new, empty dict.
BoardNew(bs, ds) ==
    LET b == Alloc(bs)
        d == Alloc(ds)
    IN  [boards |-> bs @@ (b :> NewBoard(d)), dicts |-> ds @@ (d :> EmptyDict), ref |-> b]

\* A faulty copy: plain assignment, the same dict object under a second name.
dict_alias(ds, ref) == [dicts |-> ds, ref |-> ref]

\* dict.copy() on the heap: a new dict object with the items of ds[ref].
dict_copy(ds, ref) ==
    LET d == Alloc(ds)
    IN  [dicts |-> ds @@ (d :> DictCopy(ds[ref])), ref |-> d]

\* simulate_move: the heaps after the call and the reference it returns.
simulate_move(bs, ds, board_, from_sq, to_sq) ==
    LET made == BoardNew(bs, ds)
        new_board == made.ref
        copied == dict_copy(made.dicts, made.boards[board_].pieces)
        bs1 == [made.boards EXCEPT
                  ![new_board].pieces = copied.ref,
                  ![new_board].turn = opposite(made.boards[board_].turn),
                  ![new_board].castling_rights = made.boards[board_].castling_rights,
                  ![new_board].en_passant = NoSquare,
                  ![new_board].halfmove_clock = made.boards[board_].halfmove_clock,
                  ![new_board].fullmove_number = made.boards[board_].fullmove_number]
        pieces == bs1[new_board].pieces
        piece == IF DictHas(copied.dicts[pieces], from_sq)
                 THEN copied.dicts[pieces].vals[from_sq] ELSE NoPiece
        ds1 == [copied.dicts EXCEPT ![pieces] = DictPop(@, from_sq)]
        ds2 == IF piece /= NoPiece
               THEN [ds1 EXCEPT ![pieces] = DictSet(@, to_sq, piece)]
               ELSE ds1
    IN  [boards |-> bs1, dicts |-> ds2, ref |-> new_board]

\* Python's None where a dict is optional (exchange_analysis, capture).
None == [none |-> TRUE]

\* [(s.name, str(p)) for s, p in pairs]
Named(pairs) ==
    LET Name(item) == <<SquareName(item[1]), PieceStr(item[2])>>
    IN  [i \in 1..Len(pairs) |-> Name(pairs[i])]

\* attacks.py: analyze_square, here for the None and the name lists above.
\* A faulty analyze_square: the enemy's attackers are always taken to be
\* White's.
analyze_square_white_enemy(board_, target) ==
    LET piece == get(board_, target)
        white_attackers == get_attackers(board_, target, WHITE)
        black_attackers == get_attackers(board_, target, BLACK)
        enemy_attackers == white_attackers
        defenders == IF piece /= NoPiece THEN get_defenders(board_, target) ELSE <<>>
        hanging == IF piece /= NoPiece
                   THEN Len(enemy_attackers) > 0 /\ Len(defenders) = 0
                   ELSE FALSE
        protected == IF piece /= NoPiece
                     THEN Len(defenders) >= Len(enemy_attackers)
                     ELSE TRUE
    IN  [square |-> SquareName(target),
         piece |-> IF piece /= NoPiece THEN PieceStr(piece) ELSE None,
         white_attackers |-> Named(white_attackers),
         black_attackers |-> Named(black_attackers),
         defenders |-> Named(defenders),
         is_hanging |-> hanging,
         is_protected |-> protected]

analyze_square(board_, target) ==
    LET piece == get(board_, target)
        white_attackers == get_attackers(board_, target, WHITE)
        black_attackers == get_attackers(board_, target, BLACK)
        enemy_color == opposite(piece.color)
        enemy_attackers == IF enemy_color = WHITE THEN white_attackers ELSE black_attackers
        defenders == IF piece /= NoPiece THEN get_defenders(board_, target) ELSE <<>>
        hanging == IF piece /= NoPiece
                   THEN Len(enemy_attackers) > 0 /\ Len(defenders) = 0
                   ELSE FALSE
        protected == IF piece /= NoPiece
                     THEN Len(defenders) >= Len(enemy_attackers)
                     ELSE TRUE
    IN  [square |-> SquareName(target),
         piece |-> IF piece /= NoPiece THEN PieceStr(piece) ELSE None,
         white_attackers |-> Named(white_attackers),
         black_attackers |-> Named(black_attackers),
         defenders |-> Named(defenders),
         is_hanging |-> hanging,
         is_protected |-> protected]

\* any(d[0].index == from_sq.index for d in defenders)
DefendedFrom(defenders, from_sq) ==
    \E i \in 1..Len(defenders) : defenders[i][1] = from_sq

\* A faulty pieces_left_hanging loop: who defended the piece before the move
\* is not asked.
PiecesLeftHangingAnyDefender(before, after, from_sq, color) ==
    LET enemy_color == opposite(color)
        Left(item) ==
            /\ item[2].color = color
            /\ item[1] /= from_sq
            /\ Len(get_attackers(after, item[1], enemy_color)) > 0
            /\ Len(get_defenders(after, item[1])) = 0
    IN  SelectSeq(DictItems(before.pieces), Left)

\* The pieces_left_hanging loop of analyze_move.
PiecesLeftHanging(before, after, from_sq, color) ==
    LET enemy_color == opposite(color)
        Left(item) ==
            /\ item[2].color = color
            /\ item[1] /= from_sq
            /\ DefendedFrom(get_defenders(before, item[1]), from_sq)
            /\ Len(get_attackers(after, item[1], enemy_color)) > 0
            /\ Len(get_defenders(after, item[1])) = 0
    IN  SelectSeq(DictItems(before.pieces), Left)

\* A faulty exchange analysis: equal numbers of defenders and recapturers
\* count as too few defenders.
ExchangeAnalysisOutnumber(after, to_sq, piece, capture, defenders_after) ==
    IF capture = NoPiece THEN None
    ELSE LET gain == get_piece_value(capture)
             recapturers == get_attackers(after, to_sq, opposite(piece.color))
         IN  IF Len(recapturers) > 0
             THEN LET loss == get_piece_value(piece)
                      net == IF Len(defenders_after) <= Len(recapturers)
                             THEN gain - loss ELSE gain
                  IN  [capturing |-> PieceStr(piece),
                       captured |-> PieceStr(capture),
                       gain |-> gain,
                       potential_loss |-> loss,
                       recapturers |-> Named(recapturers),
                       our_defenders |-> Named(defenders_after),
                       likely_net |-> net,
                       safe |-> Len(defenders_after) > Len(recapturers)]
             ELSE [capturing |-> PieceStr(piece),
                   captured |-> PieceStr(capture),
                   gain |-> gain,
                   recapturers |-> <<>>,
                   safe |-> TRUE]

\* The exchange analysis of analyze_move.
ExchangeAnalysis(after, to_sq, piece, capture, defenders_after) ==
    IF capture = NoPiece THEN None
    ELSE LET gain == get_piece_value(capture)
             recapturers == get_attackers(after, to_sq, opposite(piece.color))
         IN  IF Len(recapturers) > 0
             THEN LET loss == get_piece_value(piece)
                      net == IF Len(defenders_after) < Len(recapturers)
                             THEN gain - loss ELSE gain
                  IN  [capturing |-> PieceStr(piece),
                       captured |-> PieceStr(capture),
                       gain |-> gain,
                       potential_loss |-> loss,
                       recapturers |-> Named(recapturers),
                       our_defenders |-> Named(defenders_after),
                       likely_net |-> IF Len(recapturers) > 0 THEN net ELSE gain,
                       safe |-> Len(defenders_after) >= Len(recapturers)]
             ELSE [capturing |-> PieceStr(piece),
                   captured |-> PieceStr(capture),
                   gain |-> gain,
                   recapturers |-> <<>>,
                   safe |-> TRUE]

\* The warnings of analyze_move, each as its kind and the values its text shows.
Warnings(before, after, from_sq, to_sq, piece, capture, attackers, defenders_after, pieces_left_hanging, exchange_analysis) ==
    LET destination ==
            IF Len(attackers) > 0 /\ capture = NoPiece
            THEN (IF Len(defenders_after) = 0
                  THEN << [kind |-> "undefended", piece |-> PieceStr(piece),
                           square |-> SquareName(to_sq)] >>
                  ELSE IF Len(attackers) > Len(defenders_after)
                  THEN << [kind |-> "more attackers", square |-> SquareName(to_sq),
                           attackers |-> Len(attackers),
                           defenders |-> Len(defenders_after)] >>
                  ELSE <<>>)
            ELSE <<>>
        unsafe ==
            IF exchange_analysis /= None /\ ~exchange_analysis.safe
            THEN << [kind |-> "may lose material", square |-> SquareName(to_sq)] >>
            ELSE <<>>
        Hanging(item) == [kind |-> "left hanging", piece |-> PieceStr(item[2]),
                          square |-> SquareName(item[1])]
        our_king_sq == find_king(before, piece.color)
        king ==
            IF our_king_sq /= NoSquare
            THEN LET king_defenders_before == get_defenders(before, our_king_sq)
                 IN  IF /\ DefendedFrom(king_defenders_before, from_sq)
                        /\ Len(get_defenders(after, our_king_sq))
                             < Len(king_defenders_before)
                     THEN << [kind |-> "weakens king defense"] >>
                     ELSE <<>>
            ELSE <<>>
    IN  destination \o unsafe \o [i \in 1..Len(pieces_left_hanging) |-> Hanging(pieces_left_hanging[i])] \o king

\* analyze_move from the warnings on: lines 143-182.
AnalysisReport(before, after, from_sq, to_sq, piece, capture, attackers, defenders_after, pieces_left_hanging, is_check, exchange_analysis) ==
    [move |-> <<PieceStr(piece), SquareName(from_sq), SquareName(to_sq),
                IF capture /= NoPiece THEN PieceStr(capture) ELSE "">>,
     piece |-> PieceStr(piece),
     from |-> SquareName(from_sq),
     to |-> SquareName(to_sq),
     capture |-> IF capture /= NoPiece THEN PieceStr(capture) ELSE "None",
     destination_attacked_by |-> Named(attackers),
     defenders_after_move |-> Named(defenders_after),
     pieces_left_hanging |-> Named(pieces_left_hanging),
     gives_check |-> is_check,
     exchange_analysis |-> exchange_analysis,
     warnings |-> Warnings(before, after, from_sq, to_sq, piece, capture, attackers,
                           defenders_after, pieces_left_hanging, exchange_analysis)]

\* analyze_move from the is_check computation on: lines 102-182.
AnalysisWith(before, after, from_sq, to_sq, piece, capture, attackers, defenders_after, pieces_left_hanging) ==
    LET color == piece.color
        enemy_king_sq == find_king(after, opposite(color))
    IN  Assigned({AnalysisReport(before, after, from_sq, to_sq, piece, capture,
                                 attackers, defenders_after, pieces_left_hanging,
                                 is_check, exchange_analysis) :
                    is_check \in {IF enemy_king_sq /= NoSquare
                                  THEN is_attacked(after, enemy_king_sq, color)
                                  ELSE FALSE},
                    exchange_analysis \in {ExchangeAnalysis(after, to_sq, piece, capture,
                                                            defenders_after)}})

\* analyze_move once the move is simulated: lines 77-182, reading the caller's
\* board and the simulated one as the heaps hold them then.
AnalysisOf(before, after, from_sq, to_sq, piece, capture) ==
    Assigned({AnalysisWith(before, after, from_sq, to_sq, piece, capture,
                           attackers, defenders_after, pieces_left_hanging) :
                attackers \in {get_attackers(before, to_sq, opposite(piece.color))},
                defenders_after \in {get_defenders(after, to_sq)},
                pieces_left_hanging \in {PiecesLeftHanging(before, after, from_sq,
                                                           piece.color)}})

\* A faulty analyze_move: the error dict whatever stands on from_sq.
analyze_move_no_piece(bs, ds, board_, from_sq, to_sq) ==
    [boards |-> bs, dicts |-> ds,
     value |-> [error |-> <<"No piece on", SquareName(from_sq)>>]]

\* analyze_move: the heaps after the call and the dict it returns.
analyze_move(bs, ds, board_, from_sq, to_sq) ==
    Assigned({IF piece = NoPiece
              THEN [boards |-> bs, dicts |-> ds,
                    value |-> [error |-> <<"No piece on", SquareName(from_sq)>>]]
              ELSE Assigned({[boards |-> sim.boards, dicts |-> sim.dicts,
                              value |-> Assigned({AnalysisOf(before, after, from_sq, to_sq,
                                                             piece, capture) :
                                          before \in {BoardValue(sim.boards, sim.dicts, board_)},
                                          after \in {BoardValue(sim.boards, sim.dicts, sim.ref)}})] :
                               sim \in {simulate_move(bs, ds, board_, from_sq, to_sq)}}) :
                piece \in {get(BoardValue(bs, ds, board_), from_sq)},
                capture \in {get(BoardValue(bs, ds, board_), to_sq)}})

\* The tactical table with the king valued as the exchange table values it.
tactics_PIECE_VALUES_exchange_king == [p |-> 1, n |-> 3, b |-> 3, r |-> 5, q |-> 9, k |-> 1000]

(***************************************************************************)
(* tactics.py.  Its PIECE_VALUES and get_piece_value carry the module's    *)
(* name here, analyze_move.py having its own.                              *)
(***************************************************************************)
tactics_PIECE_VALUES == [p |-> 1, n |-> 3, b |-> 3, r |-> 5, q |-> 9, k |-> 100]

tactics_get_piece_value(piece) == tactics_PIECE_VALUES[piece.piece_type]

\* The targets loops of find_forks and find_fork_squares: the (square, piece)
\* pairs of the enemy pieces on squares.  The loops run over a Python set, so
\* the order of the list they fill is not the program's to choose: the pairs
\* are kept as a set.
EnemyTargets(board_, squares, enemy_color) ==
    {<<s, get(board_, s)>> :
       s \in {x \in squares : /\ get(board_, x) /= NoPiece
                              /\ get(board_, x).color = enemy_color}}

\* sum(get_piece_value(t[1]) for t in targets)
RECURSIVE TotalValue(_)
TotalValue(targets) ==
    IF targets = {} THEN 0
    ELSE LET t == CHOOSE x \in targets : TRUE
         IN  tactics_get_piece_value(t[2]) + TotalValue(targets \ {t})

\* [(t[0].name, str(t[1]), get_piece_value(t[1])) for t in targets]
TargetList(targets) ==
    {<<SquareName(t[1]), PieceStr(t[2]), tactics_get_piece_value(t[2])>> : t \in targets}

\* The body of the loop of find_forks for one (square, piece): the dict it
\* would append.
ForkRecord(board_, square, piece, enemy_color) ==
    Assigned({[forking_piece |-> PieceStr(piece),
               forking_square |-> SquareName(square),
               targets |-> TargetList(targets),
               total_value |-> TotalValue(targets)] :
                targets \in {EnemyTargets(board_, get_attacked_by_piece(board_, square, piece),
                                          enemy_color)}})

\* The dicts of find_forks for every piece of color, in dict order.
ForkRecords(board_, color) ==
    LET pieces == get_pieces_by_color(board_, color)
    IN  [i \in 1..Len(pieces) |->
           ForkRecord(board_, pieces[i][1], pieces[i][2], opposite(color))]

\* A faulty find_forks: one target is enough.
find_forks_single(board_, color) ==
    LET Forking(fork) == Cardinality(fork.targets) >= 1
    IN  SelectSeq(ForkRecords(board_, color), Forking)

find_forks(board_, color) ==
    LET Forking(fork) == Cardinality(fork.targets) >= 2
    IN  SelectSeq(ForkRecords(board_, color), Forking)

\* The walk with the colour test of the capture left out: the first occupant
\* is reachable whatever its colour.
RECURSIVE ReachableWalkToOccupant(_, _, _, _, _)
ReachableWalkToOccupant(board_, piece, current, dx, dy) ==
    LET sq_new == offset(current, dx, dy)
    IN  IF sq_new = NoSquare THEN {}
        ELSE IF get(board_, sq_new) /= NoPiece THEN {sq_new}
        ELSE {sq_new} \cup ReachableWalkToOccupant(board_, piece, sq_new, dx, dy)

\* The while loop of the sliding branch of get_reachable_squares: the squares
\* it adds walking from current in direction (dx, dy).
RECURSIVE ReachableWalk(_, _, _, _, _)
ReachableWalk(board_, piece, current, dx, dy) ==
    LET sq_new == offset(current, dx, dy)
    IN  IF sq_new = NoSquare THEN {}
        ELSE IF get(board_, sq_new) /= NoPiece
        THEN (IF get(board_, sq_new).color /= piece.color THEN {sq_new} ELSE {})
        ELSE {sq_new} \cup ReachableWalk(board_, piece, sq_new, dx, dy)

\* directions of the sliding branches: BISHOP_DIRECTIONS and ROOK_DIRECTIONS
\* as the piece type has them.
SliderDirections(piece) ==
    (IF piece.piece_type \in {BISHOP, QUEEN} THEN BISHOP_DIRECTIONS ELSE <<>>)
    \o (IF piece.piece_type \in {ROOK, QUEEN} THEN ROOK_DIRECTIONS ELSE <<>>)

\* The pawn branch with the double move tried whether or not the single
\* step is possible.
PawnReachableJumping(board_, from_sq, piece) ==
    LET direction == IF piece.color = WHITE THEN 1 ELSE -1
        sq_new == offset(from_sq, 0, direction)
        sq_new2 == offset(from_sq, 0, direction * 2)
        forward ==
            (IF sq_new /= NoSquare /\ is_empty(board_, sq_new) THEN {sq_new} ELSE {})
            \cup (IF /\ \/ (piece.color = WHITE /\ rank(from_sq) = 1)
                         \/ (piece.color = BLACK /\ rank(from_sq) = 6)
                      /\ sq_new2 /= NoSquare
                      /\ is_empty(board_, sq_new2)
                   THEN {sq_new2} ELSE {})
        captures ==
            {sq_cap \in {offset(from_sq, PAWN_FILE_DIRS[i], direction) :
                           i \in 1..Len(PAWN_FILE_DIRS)} \ {NoSquare} :
                /\ get(board_, sq_cap) /= NoPiece
                /\ get(board_, sq_cap).color /= piece.color}
    IN  forward \cup captures

\* The pawn branch of get_reachable_squares.
PawnReachable(board_, from_sq, piece) ==
    LET direction == IF piece.color = WHITE THEN 1 ELSE -1
        sq_new == offset(from_sq, 0, direction)
        sq_new2 == offset(from_sq, 0, direction * 2)
        forward ==
            IF sq_new /= NoSquare /\ is_empty(board_, sq_new)
            THEN {sq_new}
                 \cup (IF /\ \/ (piece.color = WHITE /\ rank(from_sq) = 1)
                              \/ (piece.color = BLACK /\ rank(from_sq) = 6)
                           /\ sq_new2 /= NoSquare
                           /\ is_empty(board_, sq_new2)
                        THEN {sq_new2} ELSE {})
            ELSE {}
        captures ==
            {sq_cap \in {offset(from_sq, PAWN_FILE_DIRS[i], direction) :
                           i \in 1..Len(PAWN_FILE_DIRS)} \ {NoSquare} :
                /\ get(board_, sq_cap) /= NoPiece
                /\ get(board_, sq_cap).color /= piece.color}
    IN  forward \cup captures

get_reachable_squares(board_, from_sq, piece) ==
    IF piece.piece_type = KNIGHT THEN OffsetTargets(from_sq, KNIGHT_OFFSETS)
    ELSE IF piece.piece_type = KING THEN OffsetTargets(from_sq, KING_OFFSETS)
    ELSE IF piece.piece_type = PAWN THEN PawnReachable(board_, from_sq, piece)
    ELSE LET directions == SliderDirections(piece)
         IN  UNION {ReachableWalk(board_, piece, from_sq, directions[i][1], directions[i][2]) :
                      i \in 1..Len(directions)}

\* The walk without the break at an occupied square: it runs to the edge.
RECURSIVE AttacksWalkPastOccupant(_, _, _, _)
AttacksWalkPastOccupant(board_, current, dx, dy) ==
    LET sq_new == offset(current, dx, dy)
    IN  IF sq_new = NoSquare THEN {}
        ELSE {sq_new} \cup AttacksWalkPastOccupant(board_, sq_new, dx, dy)

\* The while loop of the sliding branch of get_attacks_from_square.
RECURSIVE AttacksWalk(_, _, _, _)
AttacksWalk(board_, current, dx, dy) ==
    LET sq_new == offset(current, dx, dy)
    IN  IF sq_new = NoSquare THEN {}
        ELSE IF get(board_, sq_new) /= NoPiece THEN {sq_new}
        ELSE {sq_new} \cup AttacksWalk(board_, sq_new, dx, dy)

get_attacks_from_square(board_, from_sq, piece) ==
    IF piece.piece_type = KNIGHT THEN OffsetTargets(from_sq, KNIGHT_OFFSETS)
    ELSE IF piece.piece_type = KING THEN OffsetTargets(from_sq, KING_OFFSETS)
    ELSE IF piece.piece_type = PAWN
    THEN LET direction == IF piece.color = WHITE THEN 1 ELSE -1
         IN  {offset(from_sq, PAWN_FILE_DIRS[i], direction) :
                i \in 1..Len(PAWN_FILE_DIRS)} \ {NoSquare}
    ELSE LET directions == SliderDirections(piece)
         IN  UNION {AttacksWalk(board_, from_sq, directions[i][1], directions[i][2]) :
                      i \in 1..Len(directions)}

\* The two orders in which the model lets a Python set of squares be
\* iterated: CPython's order depends on the hashes and on the table's size.
ScanOrders == {"ascending", "descending"}

\* list(squares) in the order scan.
RECURSIVE Iterate(_, _)
Iterate(squares, scan) ==
    IF squares = {} THEN <<>>
    ELSE LET least == CHOOSE x \in squares : \A y \in squares : x <= y
         IN  IF scan = "ascending"
             THEN <<least>> \o Iterate(squares \ {least}, scan)
             ELSE Iterate(squares \ {least}, scan) \o <<least>>

\* The body of the candidate loop of find_fork_squares past the continue:
\* the dict it would append for candidate_sq.
Opportunity(board_, color, our_square, our_piece, candidate_sq) ==
    LET enemy_color == opposite(color)
        occupant == get(board_, candidate_sq)
    IN  Assigned({[fork_square |-> SquareName(candidate_sq),
                   our_piece |-> PieceStr(our_piece),
                   from_square |-> SquareName(our_square),
                   targets |-> TargetList(targets),
                   total_value |-> TotalValue(targets),
                   is_safe |-> IF Cardinality(targets) >= 2
                               THEN \/ Len(get_attackers(board_, candidate_sq, enemy_color)) = 0
                                    \/ occupant /= NoPiece
                               ELSE FALSE,
                   captures |-> IF occupant /= NoPiece THEN PieceStr(occupant) ELSE "None"] :
                    targets \in {EnemyTargets(board_,
                                              get_attacks_from_square(board_, candidate_sq, our_piece)
                                                  \ {candidate_sq},
                                              enemy_color)}})

\* The candidate loop of find_fork_squares for one of our pieces: the dicts
\* it appends.
OpportunitiesOf(board_, color, our_square, our_piece, scan) ==
    LET potential_squares == Iterate(get_reachable_squares(board_, our_square, our_piece), scan)
        Free(candidate_sq) ==
            ~(get(board_, candidate_sq) /= NoPiece /\ get(board_, candidate_sq).color = color)
        candidates == SelectSeq(potential_squares, Free)
        Forking(opportunity) == Cardinality(opportunity.targets) >= 2
    IN  SelectSeq([i \in 1..Len(candidates) |->
                     Opportunity(board_, color, our_square, our_piece, candidates[i])],
                  Forking)

\* list.sort(key=lambda x: x['total_value'], reverse=True) as an insertion:
\* x goes behind the entries whose value is not below its own, which keeps the
\* entries of equal value in the order they had.
InsertByValue(sorted, x) ==
    LET k == Cardinality({i \in 1..Len(sorted) : sorted[i].total_value >= x.total_value})
    IN  SubSeq(sorted, 1, k) \o <<x>> \o SubSeq(sorted, k + 1, Len(sorted))

\* A sort that is none: the list as it was filled.
SortUnchanged(opportunities) == opportunities

RECURSIVE SortByValue(_)
SortByValue(opportunities) ==
    IF opportunities = <<>> THEN <<>>
    ELSE InsertByValue(SortByValue(SubSeq(opportunities, 1, Len(opportunities) - 1)),
                       opportunities[Len(opportunities)])

\* find_fork_squares, with the order in which the set potential_squares is
\* iterated.
find_fork_squares(board_, color, scan) ==
    LET enemy_pieces == get_pieces_by_color(board_, opposite(color))
        ours == get_pieces_by_color(board_, color)
    IN  IF Len(enemy_pieces) < 2 THEN <<>>
        ELSE SortByValue(Flatten([i \in 1..Len(ours) |->
                                    OpportunitiesOf(board_, color, ours[i][1], ours[i][2], scan)]))

\* abs(x)
abs(x) == IF x < 0 THEN -x ELSE x

\* The while loop of find_pins: <<first_square, second_square>> once the walk
\* from current in direction (dx, dy) is over, NoSquare for a piece not met.
RECURSIVE PinWalk(_, _, _, _, _)
PinWalk(board_, current, dx, dy, first_square) ==
    LET next == offset(current, dx, dy)
    IN  IF next = NoSquare THEN <<first_square, NoSquare>>
        ELSE IF get(board_, next) /= NoPiece
        THEN (IF first_square = NoSquare
              THEN PinWalk(board_, next, dx, dy, next)
              ELSE <<first_square, next>>)
        ELSE PinWalk(board_, next, dx, dy, first_square)

\* A faulty can_pin: any enemy piece at the end of the line pins.
CanPinAny(is_diagonal, second_piece) == TRUE

\* can_pin of find_pins.
CanPin(is_diagonal, second_piece) ==
    IF is_diagonal
    THEN second_piece.piece_type \in {BISHOP, QUEEN}
    ELSE second_piece.piece_type \in {ROOK, QUEEN}

\* The body of the direction loop of find_pins: the dict it appends, or None.
PinAt(board_, color, protected_sq, protected_piece, dx, dy) ==
    Assigned({IF found[1] = NoSquare \/ found[2] = NoSquare THEN None
              ELSE LET first_piece == get(board_, found[1])
                       second_piece == get(board_, found[2])
                       is_diagonal == abs(dx) = abs(dy)
                   IN  IF /\ first_piece.color = color
                          /\ second_piece.color = opposite(color)
                          /\ CanPin(is_diagonal, second_piece)
                       THEN [pinned_piece |-> PieceStr(first_piece),
                             pinned_square |-> SquareName(found[1]),
                             pinned_value |-> tactics_get_piece_value(first_piece),
                             pinning_piece |-> PieceStr(second_piece),
                             pinning_square |-> SquareName(found[2]),
                             protected_piece |-> PieceStr(protected_piece),
                             protected_square |-> SquareName(protected_sq),
                             protected_value |-> tactics_get_piece_value(protected_piece),
                             pin_type |-> IF is_diagonal THEN "diagonal" ELSE "orthogonal",
                             is_absolute |-> protected_piece.piece_type = KING]
                       ELSE None :
                found \in {PinWalk(board_, protected_sq, dx, dy, NoSquare)}})

\* The entries of a sequence other than None.
Appended(records) ==
    LET Some(record) == record /= None
    IN  SelectSeq(records, Some)

\* The direction loop of find_pins for one protected piece.
PinsOf(board_, color, protected_sq, protected_piece) ==
    LET all_directions == BISHOP_DIRECTIONS \o ROOK_DIRECTIONS
    IN  IF protected_piece.piece_type \notin {KING, QUEEN, ROOK} THEN <<>>
        ELSE Appended([i \in 1..Len(all_directions) |->
                         PinAt(board_, color, protected_sq, protected_piece,
                               all_directions[i][1], all_directions[i][2])])

\* A faulty find_pins: color is taken for the side that pins, the pinned
\* pieces are the opponent's.
find_pins_by(board_, color) ==
    LET pieces == get_pieces_by_color(board_, opposite(color))
    IN  Flatten([i \in 1..Len(pieces) |->
                   PinsOf(board_, opposite(color), pieces[i][1], pieces[i][2])])

find_pins(board_, color) ==
    LET pieces == get_pieces_by_color(board_, color)
    IN  Flatten([i \in 1..Len(pieces) |-> PinsOf(board_, color, pieces[i][1], pieces[i][2])])

\* The while loop of find_skewers: <<first_square, second_square>>.
RECURSIVE SkewerWalk(_, _, _, _, _)
SkewerWalk(board_, current, dx, dy, first_square) ==
    LET next == offset(current, dx, dy)
    IN  IF next = NoSquare THEN <<first_square, NoSquare>>
        ELSE IF get(board_, next) /= NoPiece
        THEN (IF first_square = NoSquare
              THEN SkewerWalk(board_, next, dx, dy, next)
              ELSE <<first_square, next>>)
        ELSE SkewerWalk(board_, next, dx, dy, first_square)

\* A faulty comparison: equal values skewer too.
FrontOutweighsOrEquals(front_value, back_value) == front_value >= back_value

\* front_value > back_value
FrontOutweighs(front_value, back_value) == front_value > back_value

\* The body of the direction loop of find_skewers: the dict it appends, or
\* None.
SkewerAt(board_, color, our_sq, our_piece, dx, dy) ==
    Assigned({IF found[1] = NoSquare \/ found[2] = NoSquare THEN None
              ELSE LET first_piece == get(board_, found[1])
                       second_piece == get(board_, found[2])
                       front_value == tactics_get_piece_value(first_piece)
                       back_value == tactics_get_piece_value(second_piece)
                   IN  IF /\ first_piece.color = opposite(color)
                          /\ second_piece.color = opposite(color)
                          /\ FrontOutweighs(front_value, back_value)
                       THEN [attacking_piece |-> PieceStr(our_piece),
                             attacking_square |-> SquareName(our_sq),
                             front_target |-> PieceStr(first_piece),
                             front_square |-> SquareName(found[1]),
                             front_value |-> front_value,
                             back_target |-> PieceStr(second_piece),
                             back_square |-> SquareName(found[2]),
                             back_value |-> back_value]
                       ELSE None :
                found \in {SkewerWalk(board_, our_sq, dx, dy, NoSquare)}})

\* The direction loop of find_skewers for one of our pieces.
SkewersOf(board_, color, our_sq, our_piece) ==
    LET directions == SliderDirections(our_piece)
    IN  IF our_piece.piece_type \notin {BISHOP, ROOK, QUEEN} THEN <<>>
        ELSE Appended([i \in 1..Len(directions) |->
                         SkewerAt(board_, color, our_sq, our_piece,
                                  directions[i][1], directions[i][2])])

find_skewers(board_, color) ==
    LET pieces == get_pieces_by_color(board_, color)
    IN  Flatten([i \in 1..Len(pieces) |-> SkewersOf(board_, color, pieces[i][1], pieces[i][2])])

\* A faulty walk of find_discoveries: the second piece met is the target
\* whatever its colour.
RECURSIVE DiscoveryWalkAnyTarget(_, _, _, _, _, _)
DiscoveryWalkAnyTarget(board_, color, current, dx, dy, blocking_square) ==
    LET next == offset(current, dx, dy)
    IN  IF next = NoSquare THEN <<blocking_square, NoSquare>>
        ELSE IF get(board_, next) /= NoPiece
        THEN (IF blocking_square = NoSquare
              THEN (IF get(board_, next).color = color
                    THEN DiscoveryWalkAnyTarget(board_, color, next, dx, dy, next)
                    ELSE <<NoSquare, NoSquare>>)
              ELSE <<blocking_square, next>>)
        ELSE DiscoveryWalkAnyTarget(board_, color, next, dx, dy, blocking_square)

\* The while loop of find_discoveries: <<blocking_square, target_square>>.
RECURSIVE DiscoveryWalk(_, _, _, _, _, _)
DiscoveryWalk(board_, color, current, dx, dy, blocking_square) ==
    LET next == offset(current, dx, dy)
    IN  IF next = NoSquare THEN <<blocking_square, NoSquare>>
        ELSE IF get(board_, next) /= NoPiece
        THEN (IF blocking_square = NoSquare
              THEN (IF get(board_, next).color = color
                    THEN DiscoveryWalk(board_, color, next, dx, dy, next)
                    ELSE <<NoSquare, NoSquare>>)
              ELSE (IF get(board_, next).color = opposite(color)
                    THEN <<blocking_square, next>>
                    ELSE <<blocking_square, NoSquare>>))
        ELSE DiscoveryWalk(board_, color, next, dx, dy, blocking_square)

\* The body of the direction loop of find_discoveries: the dict it appends,
\* or None.
DiscoveryAt(board_, color, slider_sq, slider, dx, dy) ==
    Assigned({IF found[1] = NoSquare \/ found[2] = NoSquare THEN None
              ELSE LET blocking_piece == get(board_, found[1])
                       target_piece == get(board_, found[2])
                   IN  [hidden_attacker |-> PieceStr(slider),
                        hidden_square |-> SquareName(slider_sq),
                        blocking_piece |-> PieceStr(blocking_piece),
                        blocking_square |-> SquareName(found[1]),
                        target |-> PieceStr(target_piece),
                        target_square |-> SquareName(found[2]),
                        target_value |-> tactics_get_piece_value(target_piece),
                        is_check |-> target_piece.piece_type = KING] :
                found \in {DiscoveryWalk(board_, color, slider_sq, dx, dy, NoSquare)}})

\* The direction loop of find_discoveries for one of our pieces.
DiscoveriesOf(board_, color, slider_sq, slider) ==
    LET directions == SliderDirections(slider)
    IN  IF slider.piece_type \notin {BISHOP, ROOK, QUEEN} THEN <<>>
        ELSE Appended([i \in 1..Len(directions) |->
                         DiscoveryAt(board_, color, slider_sq, slider,
                                     directions[i][1], directions[i][2])])

find_discoveries(board_, color) ==
    LET pieces == get_pieces_by_color(board_, color)
    IN  Flatten([i \in 1..Len(pieces) |->
                   DiscoveriesOf(board_, color, pieces[i][1], pieces[i][2])])

\* find_fork_squares(board, color)[:5] keeps this many entries.
TopOpportunities == 5

\* find_fork_squares(board, color)[:5]
TopFive(opportunities) ==
    SubSeq(opportunities, 1,
           IF Len(opportunities) < TopOpportunities
           THEN Len(opportunities) ELSE TopOpportunities)

\* analyze_tactics
analyze_tactics(board_, color, scan) ==
    [color |-> IF color = WHITE THEN "White" ELSE "Black",
     current_forks |-> find_forks(board_, color),
     fork_opportunities |->
         Assigned({TopFive(opportunities) :
                     opportunities \in {find_fork_squares(board_, color, scan)}}),
     pins_on_us |-> find_pins(board_, color),
     pins_on_enemy |-> find_pins(board_, opposite(color)),
     our_skewers |-> find_skewers(board_, color),
     discovered_attacks |-> find_discoveries(board_, color)]

(***************************************************************************)
(* The ray walks, one iteration of the while loop at a time.  A walk is    *)
(* the record of the loop's variables: its direction, the square the last  *)
(* offset gave (seen, the start square before the first iteration), the    *)
(* number of squares offset has given (steps), the first occupied square   *)
(* met by the loops that go on to a second one, and how the loop stands:   *)
(* "running", or left by the break at the edge or at an occupant.          *)
(***************************************************************************)
\* The loop without the statement that advances current over an empty square.
FirstOccupantLoopStalled(board_, walk) ==
    LET next_sq == offset(walk.seen, walk.dx, walk.dy)
    IN  IF next_sq = NoSquare THEN [walk EXCEPT !.ended = "edge"]
        ELSE IF get(board_, next_sq) /= NoPiece
        THEN [walk EXCEPT !.seen = next_sq, !.steps = @ + 1, !.ended = "occupant"]
        ELSE [walk EXCEPT !.steps = @ + 1]

\* One iteration of the while loop of check_sliding in get_attackers, of the
\* two loops of get_attacked_by_piece, and of the sliding loops of
\* get_reachable_squares and get_attacks_from_square: break off the board,
\* break at the first occupant, go on over an empty square.
FirstOccupantLoop(board_, walk) ==
    LET next_sq == offset(walk.seen, walk.dx, walk.dy)
    IN  IF next_sq = NoSquare THEN [walk EXCEPT !.ended = "edge"]
        ELSE IF get(board_, next_sq) /= NoPiece
        THEN [walk EXCEPT !.seen = next_sq, !.steps = @ + 1, !.ended = "occupant"]
        ELSE [walk EXCEPT !.seen = next_sq, !.steps = @ + 1]

\* One iteration of the while loop of find_pins and of find_skewers: break off
\* the board, note the first occupant and go on, break at the second.
SecondOccupantLoop(board_, walk) ==
    LET current == offset(walk.seen, walk.dx, walk.dy)
    IN  IF current = NoSquare THEN [walk EXCEPT !.ended = "edge"]
        ELSE IF get(board_, current) /= NoPiece
        THEN (IF walk.first = NoSquare
              THEN [walk EXCEPT !.seen = current, !.steps = @ + 1, !.first = current]
              ELSE [walk EXCEPT !.seen = current, !.steps = @ + 1, !.ended = "occupant"])
        ELSE [walk EXCEPT !.seen = current, !.steps = @ + 1]

\* One iteration of the while loop of find_discoveries: as above, but an enemy
\* piece met first breaks the loop too.
DiscoveryLoop(board_, walk) ==
    LET current == offset(walk.seen, walk.dx, walk.dy)
    IN  IF current = NoSquare THEN [walk EXCEPT !.ended = "edge"]
        ELSE IF get(board_, current) /= NoPiece
        THEN (IF walk.first = NoSquare /\ get(board_, current).color = walk.color
              THEN [walk EXCEPT !.seen = current, !.steps = @ + 1, !.first = current]
              ELSE [walk EXCEPT !.seen = current, !.steps = @ + 1, !.ended = "occupant"])
        ELSE [walk EXCEPT !.seen = current, !.steps = @ + 1]

\* The functions that walk rays.
FirstOccupantWalks ==
    {"get_attackers", "get_attacked_by_piece", "get_reachable_squares",
     "get_attacks_from_square"}

SecondOccupantWalks == {"find_pins", "find_skewers"}

\* One iteration of the loop of the function the walk belongs to.
LoopBody(board_, walk) ==
    IF walk.loop \in FirstOccupantWalks THEN FirstOccupantLoop(board_, walk)
    ELSE IF walk.loop \in SecondOccupantWalks THEN SecondOccupantLoop(board_, walk)
    ELSE DiscoveryLoop(board_, walk)

(***************************************************************************)
(* The positions of the repository's own examples, as fen.split() gives    *)
(* them.                                                                   *)
(***************************************************************************)
\* Board.starting_position
STARTING_FEN ==
    <<<<"r", "n", "b", "q", "k", "b", "n", "r", "/", "p", "p", "p", "p", "p", "p", "p", "p", "/", "8", "/", "8", "/", "8", "/", "8", "/", "P", "P", "P", "P", "P", "P", "P", "P", "/", "R", "N", "B", "Q", "K", "B", "N", "R">>,
      "w", "KQkq", <<"-">>, <<"0">>, <<"1">>>>

\* attacks.py test_fen: after 1.e4 e5 2.Nf3
TEST_FEN ==
    <<<<"r", "n", "b", "q", "k", "b", "n", "r", "/", "p", "p", "p", "p", "1", "p", "p", "p", "/", "8", "/", "4", "p", "3", "/", "4", "P", "3", "/", "5", "N", "2", "/", "P", "P", "P", "P", "1", "P", "P", "P", "/", "R", "N", "B", "Q", "K", "B", "1", "R">>,
      "b", "KQkq", <<"-">>, <<"1">>, <<"2">>>>

\* board = Board.from_fen(fen) for that position.
TEST_BOARD == from_fen(TEST_FEN)

\* sq('e5')
E5 == sq(<<"e", "5">>)

\* analyze_move.py fen2
CAPTURE_FEN ==
    <<<<"r", "1", "b", "q", "k", "b", "n", "r", "/", "p", "p", "p", "p", "1", "p", "p", "p", "/", "2", "n", "5", "/", "4", "p", "3", "/", "4", "P", "3", "/", "5", "N", "2", "/", "P", "P", "P", "P", "1", "P", "P", "P", "/", "R", "N", "B", "Q", "K", "B", "1", "R">>,
      "w", "KQkq", <<"-">>, <<"2">>, <<"3">>>>

\* tactics.py fen
TACTICS_FEN ==
    <<<<"r", "1", "b", "q", "k", "2", "r", "/", "p", "p", "p", "p", "1", "p", "p", "p", "/", "2", "n", "2", "n", "2", "/", "2", "b", "1", "p", "3", "/", "2", "B", "1", "P", "3", "/", "5", "N", "2", "/", "P", "P", "P", "P", "1", "P", "P", "P", "/", "R", "N", "B", "Q", "K", "2", "R">>,
      "w", "KQkq", <<"-">>, <<"4">>, <<"4">>>>

\* tactics.py pin_fen
PIN_FEN ==
    <<<<"4", "k", "3", "/", "8", "/", "8", "/", "4", "n", "3", "/", "8", "/", "8", "/", "8", "/", "4", "R", "2", "K">>,
      "w", "-", <<"-">>, <<"0">>, <<"1">>>>

\* chess_vision.py usage example
EP_FEN ==
    <<<<"r", "n", "b", "q", "k", "b", "n", "r", "/", "p", "p", "p", "p", "p", "p", "p", "p", "/", "8", "/", "8", "/", "4", "P", "3", "/", "8", "/", "P", "P", "P", "P", "1", "P", "P", "P", "/", "R", "N", "B", "Q", "K", "B", "N", "R">>,
      "b", "KQkq", <<"e", "3">>, <<"0">>, <<"1">>>>

\* pin_board = Board.from_fen(pin_fen)
PIN_BOARD == from_fen(PIN_FEN)

ScenarioFens == {STARTING_FEN, TEST_FEN, CAPTURE_FEN, TACTICS_FEN, PIN_FEN, EP_FEN}

(***************************************************************************)
(* The generated positions: at most MaxPieces pieces on PlacementSquares.  *)
(***************************************************************************)
\* b2, c2, c3 and d4: a diagonal with a square between its ends, a knight's
\* jump (c2-d4), and adjacent squares on a rank, a file and a diagonal.
PlacementSquares == {9, 10, 18, 27}

Placements(squares, n) ==
    UNION {[S -> AllPieces] : S \in {T \in SUBSET squares : Cardinality(T) <= n}}

\* board.set(square, placement[square]) for every square of squares.
RECURSIVE SetAll(_, _, _)
SetAll(board_, placement, squares) ==
    IF squares = {} THEN board_
    ELSE LET square == CHOOSE x \in squares : \A y \in squares : x <= y
         IN  SetAll(set(board_, square, placement[square]), placement,
                    squares \ {square})

\* The FEN of Board() with the placement's pieces set.
PlacementFen(placement) ==
    to_fen(SetAll(NewBoard(EmptyDict), placement, DOMAIN placement))

GeneratedFens == {PlacementFen(p) : p \in Placements(PlacementSquares, MaxPieces)}

\* The squares the queries are asked about: the placement squares, c4 on
\* their file, the two ends of their diagonal (a1, h8) and e5, the square the
\* examples turn on.
QuerySquares == PlacementSquares \cup {26, 0, 63, 36}

(***************************************************************************)
(* The state machine: a caller holding board makes one call at a time and  *)
(* drops what it returned before the next.                                 *)
(***************************************************************************)
\* No call's return value is held.
Idle == [op |-> "idle"]

\* board = Board.from_fen(fen)
Load(fen) ==
    LET b == from_fen(fen)
    IN  /\ boards = (board :> [b EXCEPT !.pieces = 1])
        /\ dicts = (1 :> b.pieces)
        /\ after_board = NoRef
        /\ result = Idle

Init == \E fen \in GeneratedFens \cup ScenarioFens : Load(fen)

\* The caller's board, as the queries read it.
Board == BoardValue(boards, dicts, board)

\* The caller drops the value the last call returned.
Discard ==
    /\ result /= Idle
    /\ result' = Idle
    /\ after_board' = NoRef
    /\ boards' = Collect(boards, dicts, {board}).boards
    /\ dicts' = Collect(boards, dicts, {board}).dicts

GetAttackers(target, by_color) ==
    /\ result = Idle
    /\ result' = [op |-> "get_attackers", target |-> target, by_color |-> by_color,
                  value |-> get_attackers(Board, target, by_color)]
    /\ UNCHANGED <<boards, dicts, after_board>>

GetDefenders(target) ==
    /\ result = Idle
    /\ result' = [op |-> "get_defenders", target |-> target,
                  value |-> get_defenders(Board, target)]
    /\ UNCHANGED <<boards, dicts, after_board>>

IsHanging(target) ==
    /\ result = Idle
    /\ result' = [op |-> "is_hanging", target |-> target,
                  value |-> is_hanging(Board, target)]
    /\ UNCHANGED <<boards, dicts, after_board>>

IsProtected(target) ==
    /\ result = Idle
    /\ result' = [op |-> "is_protected", target |-> target,
                  value |-> is_protected(Board, target)]
    /\ UNCHANGED <<boards, dicts, after_board>>

\* get_attacked_by_piece for the piece standing on from_square.
GetAttackedByPiece(from_square) ==
    /\ result = Idle
    /\ ~is_empty(Board, from_square)
    /\ result' = [op |-> "get_attacked_by_piece", from_square |-> from_square,
                  piece |-> get(Board, from_square),
                  value |-> get_attacked_by_piece(Board, from_square,
                                                  get(Board, from_square))]
    /\ UNCHANGED <<boards, dicts, after_board>>

NextAttackers ==
    \/ \E target \in QuerySquares, by_color \in Colors \cup {NoColor} :
           GetAttackers(target, by_color)
    \/ Discard

SpecAttackers == Init /\ [][NextAttackers]_vars

NextDefenders ==
    \/ \E target \in QuerySquares : GetDefenders(target)
    \/ Discard

SpecDefenders == Init /\ [][NextDefenders]_vars

NextHanging ==
    \/ \E target \in QuerySquares : IsHanging(target)
    \/ Discard

SpecHanging == Init /\ [][NextHanging]_vars

NextProtected ==
    \/ \E target \in QuerySquares : IsProtected(target)
    \/ Discard

SpecProtected == Init /\ [][NextProtected]_vars

NextProjector ==
    \/ \E from_square \in Squares : GetAttackedByPiece(from_square)
    \/ Discard

SpecProjector == Init /\ [][NextProjector]_vars

(***************************************************************************)
(* Chess geometry, stated on file and rank coordinates: what the scans are  *)
(* compared with.                                                          *)
(***************************************************************************)
Occupied(b, s) == s \in DOMAIN b.pieces.vals

PieceOn(b, s) == b.pieces.vals[s]

\* The square i steps from s in direction d, or NoSquare off the board.
RaySquare(s, d, i) ==
    LET f == (s % 8) + d[1] * i
        r == (s \div 8) + d[2] * i
    IN  IF f \in 0..7 /\ r \in 0..7 THEN r * 8 + f ELSE NoSquare

\* The first occupied square on the ray from s in direction d, or NoSquare.
FirstOccupant(b, s, d) ==
    LET hits == {i \in 1..7 : RaySquare(s, d, i) /= NoSquare
                              /\ Occupied(b, RaySquare(s, d, i))}
    IN  IF hits = {} THEN NoSquare
        ELSE RaySquare(s, d, CHOOSE i \in hits : \A j \in hits : i <= j)

Diagonals == {<<1, 1>>, <<1, -1>>, <<-1, 1>>, <<-1, -1>>}

Orthogonals == {<<0, 1>>, <<0, -1>>, <<1, 0>>, <<-1, 0>>}

\* The attackers in a list that have colour c.
AttackersOfColor(pairs, c) == {x \in Range(pairs) : x[2].color = c}

(***************************************************************************)
(* C1..C3: defenders, hanging and protected pieces                         *)
(***************************************************************************)
\* C1: get_defenders(board, S) is the empty list when S is empty and otherwise
\* exactly get_attackers(board, S, by_color = colour of the piece on S).
C1_DefendersAreOwnColourAttackers ==
    result.op = "get_defenders" =>
        result.value =
            IF ~Occupied(Board, result.target) THEN <<>>
            ELSE get_attackers(Board, result.target,
                               PieceOn(Board, result.target).color)

\* A piece with a defender: get_defenders returned a non-empty list.
C1_Witness ==
    /\ result.op = "get_defenders"
    /\ Occupied(Board, result.target)
    /\ result.value /= <<>>
    /\ \A i \in 1..Len(result.value) :
           result.value[i][2].color = PieceOn(Board, result.target).color

C3_ProtectedComparesCounts ==
    result.op = "is_protected" =>
        LET S == result.target
            all == get_attackers(Board, S, NoColor)
        IN  result.value =
                (\/ ~Occupied(Board, S)
                 \/ Cardinality(AttackersOfColor(all, PieceOn(Board, S).color))
                      >= Cardinality(AttackersOfColor(all, opposite(PieceOn(Board, S).color))))

\* A piece with as many defenders as attackers, one of each, is protected.
C3_Witness ==
    /\ result.op = "is_protected"
    /\ Occupied(Board, result.target)
    /\ LET all == get_attackers(Board, result.target, NoColor)
           own == PieceOn(Board, result.target).color
       IN  /\ Cardinality(AttackersOfColor(all, own)) = 1
           /\ Cardinality(AttackersOfColor(all, opposite(own))) = 1
    /\ result.value

(***************************************************************************)
(* C4, C7: the sliding scan and the pawn probe of get_attackers            *)
(***************************************************************************)
\* The types that fit a ray of direction d.
RayTypes(d) == IF d \in Diagonals THEN {BISHOP, QUEEN} ELSE {ROOK, QUEEN}

\* by_color lets a piece of colour c through.
PassesFilter(by_color, c) == by_color = NoColor \/ by_color = c

\* The records of pieces of the given types in a list of attackers.
OfTypes(pairs, types) == {x \in Range(pairs) : x[2].piece_type \in types}

\* C4: on each of the 8 rays from the target the first occupied square ends
\* the walk; its occupant is recorded iff its type fits the ray and it passes
\* the colour filter, and nothing beyond it is recorded as a sliding attacker.
C4_FirstOccupantEndsRay ==
    result.op = "get_attackers" =>
        LET T == result.target
            Hit(d) == FirstOccupant(Board, T, d)
            Expected ==
                {<<Hit(d), PieceOn(Board, Hit(d))>> :
                   d \in {e \in Diagonals \cup Orthogonals :
                            /\ Hit(e) /= NoSquare
                            /\ PieceOn(Board, Hit(e)).piece_type \in RayTypes(e)
                            /\ PassesFilter(result.by_color, PieceOn(Board, Hit(e)).color)}}
        IN  OfTypes(result.value, {BISHOP, ROOK, QUEEN}) = Expected

\* A slider of a fitting type and colour stands on a ray behind another piece
\* that does not fit, and the scan recorded neither.
C4_Witness ==
    /\ result.op = "get_attackers"
    /\ \E d \in Diagonals \cup Orthogonals, i \in 2..7 :
           LET first == FirstOccupant(Board, result.target, d)
               behind == RaySquare(result.target, d, i)
           IN  /\ first /= NoSquare
               /\ behind /= NoSquare
               /\ behind /= first
               /\ Occupied(Board, behind)
               /\ PieceOn(Board, first).piece_type \notin RayTypes(d)
               /\ PieceOn(Board, behind).piece_type \in RayTypes(d)
               /\ PassesFilter(result.by_color, PieceOn(Board, behind).color)
               /\ \A k \in 1..Len(result.value) :
                      result.value[k][1] \notin {first, behind}

\* The squares a pawn of colour c attacks T from: one rank below T for White,
\* one rank above T for Black, on an adjacent file.
PawnOrigins(T, c) ==
    {s \in Squares :
       /\ (s % 8) - (T % 8) \in {-1, 1}
       /\ (s \div 8) - (T \div 8) = (IF c = WHITE THEN -1 ELSE 1)}

\* C7: a White pawn is recorded as an attacker of T exactly when it stands on
\* T + (+-1, -1), a Black pawn exactly when it stands on T + (+-1, +1), and a
\* colour filter suppresses the pawns of the other colour.
C7_PawnAttackers ==
    result.op = "get_attackers" =>
        OfTypes(result.value, {PAWN}) =
            {<<s, PieceOn(Board, s)>> :
               s \in {x \in Squares :
                        /\ Occupied(Board, x)
                        /\ PieceOn(Board, x).piece_type = PAWN
                        /\ x \in PawnOrigins(result.target, PieceOn(Board, x).color)
                        /\ PassesFilter(result.by_color, PieceOn(Board, x).color)}}

\* A White pawn diagonally below the target is recorded while a Black pawn
\* diagonally above it is suppressed by the filter.
C7_Witness ==
    /\ result.op = "get_attackers"
    /\ result.by_color = WHITE
    /\ \E w \in PawnOrigins(result.target, WHITE), b \in PawnOrigins(result.target, BLACK) :
           /\ Occupied(Board, w) /\ PieceOn(Board, w) = Piece(PAWN, WHITE)
           /\ Occupied(Board, b) /\ PieceOn(Board, b) = Piece(PAWN, BLACK)
           /\ result.value = << <<w, Piece(PAWN, WHITE)>> >>

(***************************************************************************)
(* C5: scanning from the piece and scanning toward the target agree        *)
(***************************************************************************)
\* C5: for a piece P standing on A and every square B, B is in
\* get_attacked_by_piece(board, A, P) iff (A, P) is in get_attackers(board, B)
\* taken without a colour filter.
C5_ProjectorAgreesWithScan ==
    result.op = "get_attacked_by_piece" =>
        \A b \in {Board}, B \in Squares :
            B \in result.value
                <=> <<result.from_square, result.piece>>
                        \in Range(get_attackers(b, B, NoColor))

\* A bishop, rook or queen whose attacked set ends on an occupied square with
\* a further square of that ray left out.
C5_Witness ==
    /\ result.op = "get_attacked_by_piece"
    /\ result.piece.piece_type \in {BISHOP, ROOK, QUEEN}
    /\ \E d \in Diagonals \cup Orthogonals, i \in 1..6 :
           LET B == RaySquare(result.from_square, d, i)
               beyond == RaySquare(result.from_square, d, i + 1)
           IN  /\ B /= NoSquare /\ beyond /= NoSquare
               /\ Occupied(Board, B)
               /\ B \in result.value
               /\ beyond \notin result.value
               /\ <<result.from_square, result.piece>>
                      \in Range(get_attackers(Board, B, NoColor))

(***************************************************************************)
(* C6: ray occlusion                                                       *)
(***************************************************************************)
\* board.set(square, piece) on the caller's board.
BoardSet(square, piece) ==
    /\ result = Idle
    /\ Cardinality(DOMAIN Board.pieces.vals) < MaxPieces
    /\ dicts' = [dicts EXCEPT ![boards[board].pieces] = set(Board, square, piece).pieces]
    /\ result' = [op |-> "set", square |-> square, piece |-> piece]
    /\ UNCHANGED <<boards, after_board>>

NextOcclusion ==
    \/ \E square \in PlacementSquares, piece \in AllPieces : BoardSet(square, piece)
    \/ Discard

SpecOcclusion == Init /\ [][NextOcclusion]_vars

\* The directions a bishop, rook or queen slides in.
SlideDirections(piece_type) ==
    IF piece_type = BISHOP THEN Diagonals
    ELSE IF piece_type = ROOK THEN Orthogonals
    ELSE IF piece_type = QUEEN THEN Diagonals \cup Orthogonals
    ELSE {}

\* The squares of the ray from A in direction d that lie more than i steps away.
Beyond(A, d, i) == {RaySquare(A, d, j) : j \in (i + 1)..7} \ {NoSquare}

\* The caller's board after the step.
BoardAfter == BoardValue(boards', dicts', board)

\* C6: for a bishop, rook or queen on A and a square B it attacks, placing any
\* piece on an empty square C strictly between A and B yields an attacked set
\* that contains C, contains neither B nor any other square beyond C on that
\* ray, and is unchanged on all other rays.
C6_Occlusion ==
    [][result'.op = "set" /\ result.op = "idle" /\ ~Occupied(Board, result'.square) =>
         \A A \in {s \in Squares : Occupied(Board, s)} :
           \A d \in SlideDirections(PieceOn(Board, A).piece_type), i \in 1..6 :
               LET C == result'.square
                   before == get_attacked_by_piece(Board, A, PieceOn(Board, A))
                   after == get_attacked_by_piece(BoardAfter, A, PieceOn(Board, A))
               IN  (C = RaySquare(A, d, i) /\ Beyond(A, d, i) \cap before /= {}) =>
                       /\ C \in after
                       /\ Beyond(A, d, i) \cap after = {}
                       /\ after \ Beyond(A, d, i) = before \ Beyond(A, d, i)]_vars

\* A piece has just been put between a slider and a square it attacked.
C6_Witness ==
    /\ result.op = "set"
    /\ \E A \in {s \in Squares : Occupied(Board, s)} \ {result.square} :
         \E d \in SlideDirections(PieceOn(Board, A).piece_type), i \in 1..6 :
             LET after == get_attacked_by_piece(Board, A, PieceOn(Board, A))
                 before == get_attacked_by_piece(
                               set(Board, result.square, NoPiece), A, PieceOn(Board, A))
             IN  /\ result.square = RaySquare(A, d, i)
                 /\ Beyond(A, d, i) \cap before /= {}
                 /\ Beyond(A, d, i) \cap after = {}
                 /\ result.square \in after
                 /\ Cardinality(DOMAIN Board.pieces.vals) = 2

(***************************************************************************)
(* C8: Square.offset                                                       *)
(***************************************************************************)
\* square.offset(file_delta, rank_delta)
Offset(square, file_delta, rank_delta) ==
    /\ result = Idle
    /\ result' = [op |-> "offset", square |-> square, file_delta |-> file_delta,
                  rank_delta |-> rank_delta,
                  value |-> offset(square, file_delta, rank_delta)]
    /\ UNCHANGED <<boards, dicts, after_board>>

InitOffset == Load(STARTING_FEN)

NextOffset ==
    \/ /\ result = Idle
       /\ \E square \in Squares, file_delta \in -MaxDelta..MaxDelta,
             rank_delta \in -MaxDelta..MaxDelta :
              Offset(square, file_delta, rank_delta)
    \/ Discard

SpecOffset == InitOffset /\ [][NextOffset]_vars

\* C8: Square.offset returns the no-square sentinel if file + file_delta or
\* rank + rank_delta lies outside [0,7], and otherwise the square with index
\* (rank + rank_delta) * 8 + (file + file_delta), which is in [0,63] and lies
\* file_delta files and rank_delta ranks away: no offset wraps around an edge.
C8_OffsetContract ==
    result.op = "offset" =>
        LET f == (result.square % 8) + result.file_delta
            r == (result.square \div 8) + result.rank_delta
        IN  IF f < 0 \/ f > 7 \/ r < 0 \/ r > 7
            THEN result.value = NoSquare
            ELSE /\ result.value = r * 8 + f
                 /\ result.value \in 0..63
                 /\ (result.value % 8) - (result.square % 8) = result.file_delta
                 /\ (result.value \div 8) - (result.square \div 8) = result.rank_delta

\* A step off the h-file that index arithmetic would carry onto the next rank.
C8_Witness ==
    /\ result.op = "offset"
    /\ result.square % 8 = 7
    /\ result.file_delta = 1
    /\ result.rank_delta = 0
    /\ result.square + 1 \in 0..63
    /\ result.value = NoSquare

(***************************************************************************)
(* C9, C10: move simulation                                                *)
(***************************************************************************)
\* The moves the repository's examples analyse: Nc6, Nxe5, d6, Qf6.
ExampleMoves ==
    {<<sq(<<"b", "8">>), sq(<<"c", "6">>)>>, <<sq(<<"f", "3">>), sq(<<"e", "5">>)>>,
     <<sq(<<"d", "7">>), sq(<<"d", "6">>)>>, <<sq(<<"d", "8">>), sq(<<"f", "6">>)>>}

\* The (from_sq, to_sq) pairs the caller passes.
Moves == (PlacementSquares \X PlacementSquares) \cup ExampleMoves

\* after_board = simulate_move(board, from_sq, to_sq)
SimulateMove(from_sq, to_sq) ==
    /\ result = Idle
    /\ \E sim \in {simulate_move(boards, dicts, board, from_sq, to_sq)} :
           /\ boards' = sim.boards
           /\ dicts' = sim.dicts
           /\ after_board' = sim.ref
    /\ result' = [op |-> "simulate_move", from_sq |-> from_sq, to_sq |-> to_sq]

\* result = analyze_move(board, from_sq, to_sq); its after_board is dropped on
\* return.
AnalyzeMove(from_sq, to_sq) ==
    /\ result = Idle
    /\ \E done \in {analyze_move(boards, dicts, board, from_sq, to_sq)} :
           /\ boards' = Collect(done.boards, done.dicts, {board}).boards
           /\ dicts' = Collect(done.boards, done.dicts, {board}).dicts
           /\ result' = [op |-> "analyze_move", from_sq |-> from_sq, to_sq |-> to_sq,
                         value |-> done.value]
    /\ UNCHANGED after_board

NextMove ==
    \/ \E move \in Moves : SimulateMove(move[1], move[2])
    \/ \E move \in Moves : AnalyzeMove(move[1], move[2])
    \/ Discard

SpecMove == Init /\ [][NextMove]_vars

\* The board simulate_move returned.
After == BoardValue(boards, dicts, after_board)

\* The number of pieces on a board.
PieceCount(b) == Cardinality(DOMAIN b.pieces.vals)

\* C9: simulate_move and analyze_move never change the board they are given:
\* after either call the caller's board has the same piece on every square,
\* the same side to move, castling rights, en-passant square and counters.
C9_CallerBoardUnchanged ==
    [][BoardValue(boards', dicts', board) = BoardValue(boards, dicts, board)]_vars

\* simulate_move has moved a piece on its own board, which shares no dict with
\* the caller's board, where the piece still stands on from_sq.
C9_Witness ==
    /\ result.op = "simulate_move"
    /\ result.from_sq /= result.to_sq
    /\ Occupied(Board, result.from_sq)
    /\ ~Occupied(After, result.from_sq)
    /\ PieceOn(After, result.to_sq) = PieceOn(Board, result.from_sq)
    /\ boards[after_board].pieces /= boards[board].pieces

\* The successor simulate_move builds from b for a piece on from_sq: the count
\* drops by one iff to_sq was occupied, from_sq is empty, and to_sq holds the
\* piece that stood on from_sq.
Successor(b, a, from_sq, to_sq) ==
    /\ PieceCount(a) = PieceCount(b) - (IF Occupied(b, to_sq) THEN 1 ELSE 0)
    /\ ~Occupied(a, from_sq)
    /\ Occupied(a, to_sq)
    /\ PieceOn(a, to_sq) = PieceOn(b, from_sq)

\* C10, as stated: for every from and to with a piece on from, the successor
\* has the prior count less one if to was occupied, no piece on from, and the
\* moved piece on to.
C10_SuccessorAnyPair ==
    [][(result'.op = "simulate_move" /\ Occupied(Board, result'.from_sq)) =>
           Successor(Board, BoardValue(boards', dicts', after_board'),
                     result'.from_sq, result'.to_sq)]_vars

\* C10, for from /= to: with a piece on from, the successor has the prior count
\* less one if to was occupied, no piece on from, and the moved piece on to;
\* for from = to the successor holds the same pieces as the prior position.
C10_SuccessorDistinctSquares ==
    [][(result'.op = "simulate_move" /\ Occupied(Board, result'.from_sq)) =>
           IF result'.from_sq /= result'.to_sq
           THEN Successor(Board, BoardValue(boards', dicts', after_board'),
                          result'.from_sq, result'.to_sq)
           ELSE BoardValue(boards', dicts', after_board').pieces.vals
                    = Board.pieces.vals]_vars

\* A capture has been simulated: the successor has one piece less.
C10_Witness ==
    /\ result.op = "simulate_move"
    /\ result.from_sq /= result.to_sq
    /\ Occupied(Board, result.from_sq)
    /\ Occupied(Board, result.to_sq)
    /\ PieceCount(After) = PieceCount(Board) - 1
    /\ PieceOn(After, result.to_sq) = PieceOn(Board, result.from_sq)

(***************************************************************************)
(* C11..C13: analyze_move                                                  *)
(***************************************************************************)
\* The keys of the dict analyze_move returns for a piece on from_sq.
AnalysisFields ==
    {"move", "piece", "from", "to", "capture", "destination_attacked_by",
     "defenders_after_move", "pieces_left_hanging", "gives_check",
     "exchange_analysis", "warnings"}

\* C11: when from holds no piece, analyze_move returns a dict with an error
\* entry and none of the analysis fields, whatever to is, and the caller's
\* board is as before; when from holds a piece the dict has the analysis
\* fields and no error entry.
C11_ErrorIffNoPieceOnFrom ==
    [][result'.op = "analyze_move" =>
           IF ~Occupied(Board, result'.from_sq)
           THEN /\ "error" \in DOMAIN result'.value
                /\ DOMAIN result'.value \cap AnalysisFields = {}
                /\ BoardAfter = Board
           ELSE /\ "error" \notin DOMAIN result'.value
                /\ DOMAIN result'.value = AnalysisFields]_vars

\* analyze_move was asked about an empty from square and an occupied to
\* square of a board with pieces, and returned the error dict.
C11_Witness ==
    /\ result.op = "analyze_move"
    /\ ~Occupied(Board, result.from_sq)
    /\ Occupied(Board, result.to_sq)
    /\ DOMAIN result.value = {"error"}
    /\ result.value.error = <<"No piece on", SquareName(result.from_sq)>>

\* The pieces the dense positions are made of: they fill any of the placement
\* squares with a White pawn or bishop or a Black pawn or knight, so that a
\* mover, a piece it defends or captures, an enemy attacker and a second
\* defender can stand together.
DensePieces ==
    {Piece(PAWN, WHITE), Piece(BISHOP, WHITE), Piece(PAWN, BLACK), Piece(KNIGHT, BLACK)}

DenseFens ==
    {PlacementFen(p) : p \in UNION {[S -> DensePieces] : S \in SUBSET PlacementSquares}}

InitAnalysis == \E fen \in DenseFens \cup ScenarioFens : Load(fen)

NextAnalysis ==
    \/ \E move \in Moves : AnalyzeMove(move[1], move[2])
    \/ Discard

SpecAnalysis == InitAnalysis /\ [][NextAnalysis]_vars

\* The board simulate_move builds from the caller's board for a move.
Simulated(from_sq, to_sq) ==
    Assigned({BoardValue(sim.boards, sim.dicts, sim.ref) :
                sim \in {simulate_move(boards, dicts, board, from_sq, to_sq)}})

\* The squares of the pieces a move from from_sq leaves hanging: pieces of the
\* mover's colour on b, elsewhere than from_sq, that had from_sq among their
\* defenders on b and on the successor a have an enemy attacker and no
\* defender.
LeftHangingSquares(b, a, from_sq) ==
    {s \in Squares :
        /\ Occupied(b, s)
        /\ s /= from_sq
        /\ PieceOn(b, s).color = PieceOn(b, from_sq).color
        /\ \E d \in Range(get_defenders(b, s)) : d[1] = from_sq
        /\ get_attackers(a, s, opposite(PieceOn(b, from_sq).color)) /= <<>>
        /\ get_defenders(a, s) = <<>>}

\* The (square name, piece) pairs of the "left hanging" warnings.
HangingWarnings(warnings) ==
    {<<w.square, w.piece>> : w \in {x \in Range(warnings) : x.kind = "left hanging"}}

\* C12 (a piece's attackers and defenders in the successor position are those
\* of the square it stood on): pieces_left_hanging lists, once each, exactly the pieces of the
\* mover's colour on squares other than from that the piece on from defended
\* before the move and that in the successor position have an enemy attacker
\* and no defender; the "left hanging" warnings name exactly the listed
\* pieces, so a piece the mover did not defend gets none; after 1.e4 e5 2.Nf3,
\* Nb8-c6 gives no such warning for e5.
C12_LeftHangingExactly ==
    [][(result'.op = "analyze_move" /\ Occupied(Board, result'.from_sq)) =>
           \A a \in {Simulated(result'.from_sq, result'.to_sq)} :
               LET expected ==
                       {<<SquareName(s), PieceStr(PieceOn(Board, s))>> :
                          s \in LeftHangingSquares(Board, a, result'.from_sq)}
                   listed == result'.value.pieces_left_hanging
               IN  /\ Range(listed) = expected
                   /\ Len(listed) = Cardinality(expected)
                   /\ HangingWarnings(result'.value.warnings) = expected
                   /\ (/\ result'.from_sq = sq(<<"b", "8">>)
                       /\ result'.to_sq = sq(<<"c", "6">>)
                       /\ Board = TEST_BOARD)
                      => <<SquareName(E5), "p">> \notin HangingWarnings(result'.value.warnings)]_vars

\* The bishop on b2 has left the diagonal for c2: the pawn on c3, which it
\* defended and the pawn on d4 attacks, is listed and warned about, while
\* the pawn on d4 is not.
C12_Witness ==
    /\ result.op = "analyze_move"
    /\ result.from_sq = sq(<<"b", "2">>)
    /\ result.to_sq = sq(<<"c", "2">>)
    /\ Occupied(Board, result.from_sq)
    /\ PieceOn(Board, result.from_sq) = Piece(BISHOP, WHITE)
    /\ result.value.pieces_left_hanging = << <<<<"c", "3">>, "P">> >>
    /\ HangingWarnings(result.value.warnings) = {<<<<"c", "3">>, "P">>}
    /\ Occupied(Board, sq(<<"d", "4">>))

\* C13: when to is occupied, analyze_move reports an exchange estimate whose
\* gain is the value of the piece on to and whose safe flag is true iff the
\* defenders of to in the successor position are at least as many as the enemy
\* pieces attacking to there; with one or more such recapturers the potential
\* loss is the mover's value and the likely net is gain - loss when the
\* defenders are fewer than the recapturers and gain otherwise; when to is
\* empty no estimate is reported.
C13_ExchangeEstimate ==
    [][(result'.op = "analyze_move" /\ Occupied(Board, result'.from_sq)) =>
           \A a \in {Simulated(result'.from_sq, result'.to_sq)} :
               LET estimate == result'.value.exchange_analysis
                   mover == PieceOn(Board, result'.from_sq)
                   defenders == Len(get_defenders(a, result'.to_sq))
                   recapturers ==
                       Len(get_attackers(a, result'.to_sq, opposite(mover.color)))
                   gain == get_piece_value(PieceOn(Board, result'.to_sq))
                   loss == get_piece_value(mover)
               IN  IF Occupied(Board, result'.to_sq)
                   THEN /\ estimate /= None
                        /\ estimate.gain = gain
                        /\ estimate.safe = (defenders >= recapturers)
                        /\ recapturers > 0 =>
                              /\ estimate.potential_loss = loss
                              /\ estimate.likely_net =
                                   IF defenders < recapturers THEN gain - loss ELSE gain
                   ELSE estimate = None]_vars

\* Nxe5 after 1.e4 e5 2.Nf3 Nc6 has been analysed: the knight on c6
\* recaptures and nothing defends e5, so the estimate is 1 - 3 and unsafe.
C13_Witness ==
    /\ result.op = "analyze_move"
    /\ result.from_sq = sq(<<"f", "3">>)
    /\ result.to_sq = E5
    /\ Occupied(Board, result.from_sq)
    /\ Occupied(Board, result.to_sq)
    /\ result.value.exchange_analysis.recapturers = << <<<<"c", "6">>, "n">> >>
    /\ result.value.exchange_analysis.our_defenders = <<>>
    /\ result.value.exchange_analysis.gain = 1
    /\ result.value.exchange_analysis.potential_loss = 3
    /\ result.value.exchange_analysis.likely_net = -2
    /\ ~result.value.exchange_analysis.safe

(***************************************************************************)
(* C14..C20: tactics                                                       *)
(***************************************************************************)
\* Three squares each: the diagonal b2-c3-d4, the file c2-c3-c4, c2 with the
\* two squares a knight on it reaches, b4 and d4 (which are also two squares
\* of a rank with a gap between them), and c2-c3 with b4, which a piece on c4
\* attacks along the rank.
TacticLines == {{9, 18, 27}, {10, 18, 26}, {10, 25, 27}, {10, 18, 25}}

\* The positions with a piece on each square of one of the lines.
LineFens == {PlacementFen(p) : p \in UNION {[T -> AllPieces] : T \in TacticLines}}

InitTactics == \E fen \in GeneratedFens \cup LineFens \cup ScenarioFens : Load(fen)

\* result = find_forks(board, color)
FindForks(color) ==
    /\ result = Idle
    /\ result' = [op |-> "find_forks", color |-> color,
                  value |-> find_forks(Board, color)]
    /\ UNCHANGED <<boards, dicts, after_board>>

NextForks ==
    \/ \E color \in Colors : FindForks(color)
    \/ Discard

SpecForks == InitTactics /\ [][NextForks]_vars

\* The squares of the enemy pieces the piece on s attacks on b.
ForkedSquares(b, s) ==
    {t \in get_attacked_by_piece(b, s, PieceOn(b, s)) :
        Occupied(b, t) /\ PieceOn(b, t).color /= PieceOn(b, s).color}

\* The sum of the material values of the pieces on squares.
RECURSIVE MaterialOn(_, _)
MaterialOn(b, squares) ==
    IF squares = {} THEN 0
    ELSE LET t == CHOOSE x \in squares : TRUE
         IN  tactics_PIECE_VALUES[PieceOn(b, t).piece_type] + MaterialOn(b, squares \ {t})

\* The records of a list whose field names square s.
RecordsAt(list, field, s) == {i \in 1..Len(list) : list[i][field] = SquareName(s)}

\* C14: find_forks(board, color) returns one record for each piece of color
\* that attacks two or more enemy pieces and no other record; the record's
\* targets are those enemy pieces, each with its square and value, and its
\* total_value is the sum of their values.
C14_ForksExactly ==
    result.op = "find_forks" =>
        /\ \A s \in Squares :
              LET forking == /\ Occupied(Board, s)
                             /\ PieceOn(Board, s).color = result.color
                             /\ Cardinality(ForkedSquares(Board, s)) >= 2
                  records == RecordsAt(result.value, "forking_square", s)
              IN  /\ Cardinality(records) = IF forking THEN 1 ELSE 0
                  /\ \A i \in records :
                        /\ result.value[i].forking_piece = PieceStr(PieceOn(Board, s))
                        /\ result.value[i].targets =
                             {<<SquareName(t), PieceStr(PieceOn(Board, t)),
                                tactics_PIECE_VALUES[PieceOn(Board, t).piece_type]>> :
                                t \in ForkedSquares(Board, s)}
                        /\ result.value[i].total_value =
                             MaterialOn(Board, ForkedSquares(Board, s))
        /\ \A i \in 1..Len(result.value) :
              \E s \in Squares : result.value[i].forking_square = SquareName(s)

\* A White knight attacks a Black king and a Black queen: find_forks(White)
\* has returned one record, with the two targets and 100 + 9 as total value.
C14_Witness ==
    /\ result.op = "find_forks"
    /\ result.color = WHITE
    /\ Len(result.value) = 1
    /\ result.value[1].forking_piece = "N"
    /\ Cardinality(result.value[1].targets) = 2
    /\ {t[2] : t \in result.value[1].targets} = {"k", "q"}
    /\ result.value[1].total_value = tactics_PIECE_VALUES[KING] + 9
    /\ result.value[1].total_value = 109

\* result = find_fork_squares(board, color), the sets iterated in order scan.
FindForkSquares(color, scan) ==
    /\ result = Idle
    /\ result' = [op |-> "find_fork_squares", color |-> color,
                  value |-> find_fork_squares(Board, color, scan)]
    /\ UNCHANGED <<boards, dicts, after_board>>

\* result = analyze_tactics(board, color)
AnalyzeTactics(color, scan) ==
    /\ result = Idle
    /\ result' = [op |-> "analyze_tactics", color |-> color, scan |-> scan,
                  value |-> analyze_tactics(Board, color, scan)]
    /\ UNCHANGED <<boards, dicts, after_board>>

NextForkSquares ==
    \/ \E color \in Colors, scan \in ScanOrders : FindForkSquares(color, scan)
    \/ \E color \in Colors, scan \in ScanOrders : AnalyzeTactics(color, scan)
    \/ Discard

\* find_fork_squares returns [] for fewer than two enemy pieces: its
\* positions are those with three pieces or more.
InitLines == \E fen \in LineFens \cup ScenarioFens : Load(fen)

SpecForkSquares == InitLines /\ [][NextForkSquares]_vars

\* The destinations find_fork_squares tries for the piece on s: the squares it
\* can pseudo-reach that hold no piece of its colour.
Destinations(b, s) ==
    {d \in get_reachable_squares(b, s, PieceOn(b, s)) :
        ~(Occupied(b, d) /\ PieceOn(b, d).color = PieceOn(b, s).color)}

\* The entries of the returned list for the piece on s going to d.
OpportunitiesAt(list, s, d) ==
    {i \in 1..Len(list) : /\ list[i].from_square = SquareName(s)
                          /\ list[i].fork_square = SquareName(d)}

\* The (name, piece, value) triples of the pieces of b on squares.
Triples(b, squares) ==
    {<<SquareName(t), PieceStr(PieceOn(b, t)), tactics_PIECE_VALUES[PieceOn(b, t).piece_type]>> :
       t \in squares}

\* C15, as stated: for every piece of color and every destination, the targets
\* of the opportunity find_fork_squares reports are the enemy pieces the piece
\* attacks in the position where it has been moved from its origin to the
\* destination, and an opportunity is reported iff they are two or more.
C15_TargetsAsIfRelocated ==
    result.op = "find_fork_squares" =>
        \A s \in {x \in Squares : Occupied(Board, x) /\ PieceOn(Board, x).color = result.color} :
            \A d \in Destinations(Board, s) :
                \A relocated \in {Simulated(s, d)} :
                    LET targets == ForkedSquares(relocated, d)
                        reported == OpportunitiesAt(result.value, s, d)
                    IN  /\ Cardinality(reported) = IF Cardinality(targets) >= 2 THEN 1 ELSE 0
                        /\ \A i \in reported :
                              result.value[i].targets = Triples(relocated, targets)

\* The rook on c3 can go to c4, from where it would attack the knight on b4
\* and, down the file it has left, the pawn on c2; find_fork_squares(White)
\* has returned no opportunity.
C15_Witness ==
    /\ result.op = "find_fork_squares"
    /\ result.color = WHITE
    /\ Board.pieces.vals = (sq(<<"c", "3">>) :> Piece(ROOK, WHITE))
                            @@ (sq(<<"c", "2">>) :> Piece(PAWN, BLACK))
                            @@ (sq(<<"b", "4">>) :> Piece(KNIGHT, BLACK))
    /\ sq(<<"c", "4">>) \in Destinations(Board, sq(<<"c", "3">>))
    /\ ForkedSquares(Simulated(sq(<<"c", "3">>), sq(<<"c", "4">>)), sq(<<"c", "4">>))
           = {sq(<<"c", "2">>), sq(<<"b", "4">>)}
    /\ result.value = <<>>

\* A list in non-increasing order of total_value.
Descending(list) ==
    \A i \in 1..(Len(list) - 1) : list[i].total_value >= list[i + 1].total_value

\* C16: the list find_fork_squares returns is in non-increasing order of
\* total_value: of two consecutive entries the earlier one's total_value is
\* at least the later one's.  The fork_opportunities of analyze_tactics are
\* the first 5 entries of that list (all of them if it has fewer), and none
\* of the entries left out has a higher total_value than one that is kept.
C16_SortedByTotalValue ==
    /\ result.op = "find_fork_squares" => Descending(result.value)
    /\ result.op = "analyze_tactics" =>
          \A full \in {find_fork_squares(Board, result.color, result.scan)} :
              LET kept == result.value.fork_opportunities
              IN  /\ Len(kept) = IF Len(full) < 5 THEN Len(full) ELSE 5
                  /\ kept = SubSeq(full, 1, Len(kept))
                  /\ Descending(full)
                  /\ \A i \in 1..Len(kept), j \in (Len(kept) + 1)..Len(full) :
                        kept[i].total_value >= full[j].total_value

\* analyze_tactics has kept 5 of more than 5 opportunities, the first of a
\* higher total value than one left out.
C16_Witness ==
    /\ result.op = "analyze_tactics"
    /\ Len(result.value.fork_opportunities) = 5
    /\ \E full \in {find_fork_squares(Board, result.color, result.scan)} :
           /\ Len(full) > 5
           /\ result.value.fork_opportunities[1].total_value > full[6].total_value
           /\ result.value.fork_opportunities[5].total_value = full[6].total_value

\* result = find_pins(board, color)
FindPins(color) ==
    /\ result = Idle
    /\ result' = [op |-> "find_pins", color |-> color, value |-> find_pins(Board, color)]
    /\ UNCHANGED <<boards, dicts, after_board>>

NextPins ==
    \/ \E color \in Colors : FindPins(color)
    \/ Discard

SpecPins == InitTactics /\ [][NextPins]_vars

\* The second occupied square on the ray from s in direction d, or NoSquare.
SecondOccupant(b, s, d) ==
    LET hits == {i \in 1..7 : RaySquare(s, d, i) /= NoSquare
                              /\ Occupied(b, RaySquare(s, d, i))}
        later == {i \in hits : \E j \in hits : j < i}
    IN  IF later = {} THEN NoSquare
        ELSE RaySquare(s, d, CHOOSE i \in later : \A j \in later : i <= j)

\* The piece of colour c on s is pinned-against along d: the first occupied
\* square of the ray holds a piece of colour c and the second an enemy piece
\* that moves along the ray.
PinOn(b, c, s, d) ==
    /\ FirstOccupant(b, s, d) /= NoSquare
    /\ SecondOccupant(b, s, d) /= NoSquare
    /\ PieceOn(b, FirstOccupant(b, s, d)).color = c
    /\ PieceOn(b, SecondOccupant(b, s, d)).color /= c
    /\ PieceOn(b, SecondOccupant(b, s, d)).piece_type \in RayTypes(d)

\* The squares of the kings, queens and rooks of colour c.
ProtectedSquares(b, c) ==
    {s \in Squares : /\ Occupied(b, s)
                     /\ PieceOn(b, s).color = c
                     /\ PieceOn(b, s).piece_type \in {KING, QUEEN, ROOK}}

\* The entries of a list whose two square fields name s and t.
RecordsBetween(list, field, s, other, t) ==
    {i \in 1..Len(list) : list[i][field] = SquareName(s) /\ list[i][other] = SquareName(t)}

\* C17: find_pins(board, color) returns one record for each king, queen or
\* rook of color and each of the 8 directions from it along which the first
\* occupied square holds a piece of color and the second an enemy bishop or
\* queen (diagonal ray) or an enemy rook or queen (orthogonal ray), and no
\* other record; the record names the three pieces and their squares, its
\* pin_type is the ray's kind, and is_absolute is true iff the protected piece
\* is the king.
C17_PinsExactly ==
    result.op = "find_pins" =>
        /\ \A s \in ProtectedSquares(Board, result.color) :
              \A d \in Diagonals \cup Orthogonals :
                  LET first == FirstOccupant(Board, s, d)
                      second == SecondOccupant(Board, s, d)
                      records == RecordsBetween(result.value, "protected_square", s,
                                                "pinned_square", first)
                  IN  first /= NoSquare =>
                        /\ Cardinality(records) = IF PinOn(Board, result.color, s, d) THEN 1 ELSE 0
                        /\ \A i \in records :
                              /\ result.value[i].pinning_square = SquareName(second)
                              /\ result.value[i].pinned_piece = PieceStr(PieceOn(Board, first))
                              /\ result.value[i].pinning_piece = PieceStr(PieceOn(Board, second))
                              /\ result.value[i].protected_piece = PieceStr(PieceOn(Board, s))
                              /\ result.value[i].pin_type =
                                   IF d \in Diagonals THEN "diagonal" ELSE "orthogonal"
                              /\ result.value[i].is_absolute =
                                   (PieceOn(Board, s).piece_type = KING)
        /\ Len(result.value) =
              Cardinality({x \in ProtectedSquares(Board, result.color)
                                  \X (Diagonals \cup Orthogonals) :
                             PinOn(Board, result.color, x[1], x[2])})

\* find_pins has returned a pin along a diagonal against a piece that is not
\* the king: one record, not absolute.
C17_Witness ==
    /\ result.op = "find_pins"
    /\ Len(result.value) = 1
    /\ result.value[1].pin_type = "diagonal"
    /\ ~result.value[1].is_absolute
    /\ result.value[1].protected_square = <<"b", "2">>
    /\ result.value[1].pinned_square = <<"c", "3">>
    /\ result.value[1].pinning_square = <<"d", "4">>

\* The pin of the position 4k3/8/8/4n3/8/8/8/4R2K: the knight on e5 pinned to
\* the king on e8 by the rook on e1, absolute and orthogonal.
KnightPin(record) ==
    /\ record.pinned_piece = "n"
    /\ record.pinned_square = <<"e", "5">>
    /\ record.pinning_piece = "R"
    /\ record.pinning_square = <<"e", "1">>
    /\ record.protected_piece = "k"
    /\ record.protected_square = <<"e", "8">>
    /\ record.is_absolute
    /\ record.pin_type = "orthogonal"

\* C18, as stated: for the position 4k3/8/8/4n3/8/8/8/4R2K w - - 0 1,
\* find_pins(White) reports the knight on e5 as pinned to the king on e8 by
\* the rook on e1, with is_absolute = true and pin_type = "orthogonal".
C18_PinFromWhiteCall ==
    (result.op = "find_pins" /\ result.color = WHITE /\ Board = PIN_BOARD) =>
        \E i \in 1..Len(result.value) : KnightPin(result.value[i])

\* C18, amended: for that position find_pins(Black) returns one record, the
\* knight on e5 pinned to the king on e8 by the rook on e1, absolute and
\* orthogonal, and find_pins(White) returns none.
C18_PinFromBlackCall ==
    (result.op = "find_pins" /\ Board = PIN_BOARD) =>
        IF result.color = BLACK
        THEN Len(result.value) = 1 /\ KnightPin(result.value[1])
        ELSE result.value = <<>>

\* find_pins(Black) has returned the knight's pin for that position.
C18_Witness ==
    /\ result.op = "find_pins"
    /\ result.color = BLACK
    /\ Board = PIN_BOARD
    /\ Len(result.value) = 1
    /\ KnightPin(result.value[1])
    /\ result.value[1].pinned_value = 3
    /\ result.value[1].protected_value = 100

\* result = find_skewers(board, color)
FindSkewers(color) ==
    /\ result = Idle
    /\ result' = [op |-> "find_skewers", color |-> color,
                  value |-> find_skewers(Board, color)]
    /\ UNCHANGED <<boards, dicts, after_board>>

NextSkewers ==
    \/ \E color \in Colors : FindSkewers(color)
    \/ Discard

SpecSkewers == InitTactics /\ [][NextSkewers]_vars

\* The squares of the bishops, rooks and queens of colour c.
SliderSquares(b, c) ==
    {s \in Squares : /\ Occupied(b, s)
                     /\ PieceOn(b, s).color = c
                     /\ PieceOn(b, s).piece_type \in {BISHOP, ROOK, QUEEN}}

\* The directions a piece of the type moves along: the diagonals for a
\* bishop, the orthogonals for a rook, both for a queen.
MoveDirections(piece_type) ==
    (IF piece_type \in {BISHOP, QUEEN} THEN Diagonals ELSE {})
    \cup (IF piece_type \in {ROOK, QUEEN} THEN Orthogonals ELSE {})

\* The material value of the piece of b on s.
ValueOn(b, s) == tactics_PIECE_VALUES[PieceOn(b, s).piece_type]

\* The slider of colour c on s skewers along d: the first two occupied squares
\* of the ray hold enemy pieces, the nearer of a higher value than the farther.
SkewerOn(b, c, s, d) ==
    /\ FirstOccupant(b, s, d) /= NoSquare
    /\ SecondOccupant(b, s, d) /= NoSquare
    /\ PieceOn(b, FirstOccupant(b, s, d)).color /= c
    /\ PieceOn(b, SecondOccupant(b, s, d)).color /= c
    /\ ValueOn(b, FirstOccupant(b, s, d)) > ValueOn(b, SecondOccupant(b, s, d))

\* C19: find_skewers(board, color) returns one record for each bishop, rook
\* or queen of color and each direction that piece type moves along for which
\* the first and second occupied squares of the ray both hold enemy pieces
\* and the nearer piece's value is strictly greater than the farther one's,
\* and no other record: none for equal values, for a friendly piece among
\* the two, or along a direction the slider does not move in.
C19_SkewersExactly ==
    result.op = "find_skewers" =>
        /\ \A s \in SliderSquares(Board, result.color) :
              \A d \in Diagonals \cup Orthogonals :
                  LET first == FirstOccupant(Board, s, d)
                      second == SecondOccupant(Board, s, d)
                      records == RecordsBetween(result.value, "attacking_square", s,
                                                "front_square", first)
                      skewer == /\ d \in MoveDirections(PieceOn(Board, s).piece_type)
                                /\ SkewerOn(Board, result.color, s, d)
                  IN  first /= NoSquare =>
                        /\ Cardinality(records) = IF skewer THEN 1 ELSE 0
                        /\ \A i \in records :
                              /\ result.value[i].back_square = SquareName(second)
                              /\ result.value[i].attacking_piece = PieceStr(PieceOn(Board, s))
                              /\ result.value[i].front_target = PieceStr(PieceOn(Board, first))
                              /\ result.value[i].back_target = PieceStr(PieceOn(Board, second))
                              /\ result.value[i].front_value = ValueOn(Board, first)
                              /\ result.value[i].back_value = ValueOn(Board, second)
        /\ Len(result.value) =
              Cardinality({x \in SliderSquares(Board, result.color)
                                  \X (Diagonals \cup Orthogonals) :
                             /\ x[2] \in MoveDirections(PieceOn(Board, x[1]).piece_type)
                             /\ SkewerOn(Board, result.color, x[1], x[2])})

\* A rook has skewered a king and the piece behind it on a file.
C19_Witness ==
    /\ result.op = "find_skewers"
    /\ Len(result.value) = 1
    /\ result.value[1].attacking_piece \in {"R", "r"}
    /\ result.value[1].attacking_square = <<"c", "2">>
    /\ result.value[1].front_square = <<"c", "3">>
    /\ result.value[1].back_square = <<"c", "4">>
    /\ result.value[1].front_value = 100
    /\ result.value[1].back_value < 100

\* result = find_discoveries(board, color)
FindDiscoveries(color) ==
    /\ result = Idle
    /\ result' = [op |-> "find_discoveries", color |-> color,
                  value |-> find_discoveries(Board, color)]
    /\ UNCHANGED <<boards, dicts, after_board>>

NextDiscoveries ==
    \/ \E color \in Colors : FindDiscoveries(color)
    \/ Discard

SpecDiscoveries == InitTactics /\ [][NextDiscoveries]_vars

\* The slider of colour c on s has a discovery along d: the first occupied
\* square of the ray holds a piece of colour c, the next an enemy piece.
DiscoveryOn(b, c, s, d) ==
    /\ FirstOccupant(b, s, d) /= NoSquare
    /\ SecondOccupant(b, s, d) /= NoSquare
    /\ PieceOn(b, FirstOccupant(b, s, d)).color = c
    /\ PieceOn(b, SecondOccupant(b, s, d)).color /= c

\* C20: find_discoveries(board, color) returns one record for each bishop,
\* rook or queen of color and each direction that piece type moves along for
\* which the first occupied square of the ray holds a friendly piece and the
\* next occupied square an enemy piece, and no other record: none for a ray
\* whose first occupant is an enemy piece, whose second occupant is friendly,
\* or that has fewer than two occupants.
C20_DiscoveriesExactly ==
    result.op = "find_discoveries" =>
        /\ \A s \in SliderSquares(Board, result.color) :
              \A d \in Diagonals \cup Orthogonals :
                  LET first == FirstOccupant(Board, s, d)
                      second == SecondOccupant(Board, s, d)
                      records == RecordsBetween(result.value, "hidden_square", s,
                                                "blocking_square", first)
                      discovery == /\ d \in MoveDirections(PieceOn(Board, s).piece_type)
                                   /\ DiscoveryOn(Board, result.color, s, d)
                  IN  first /= NoSquare =>
                        /\ Cardinality(records) = IF discovery THEN 1 ELSE 0
                        /\ \A i \in records :
                              /\ result.value[i].target_square = SquareName(second)
                              /\ result.value[i].hidden_attacker = PieceStr(PieceOn(Board, s))
                              /\ result.value[i].blocking_piece = PieceStr(PieceOn(Board, first))
                              /\ result.value[i].target = PieceStr(PieceOn(Board, second))
        /\ Len(result.value) =
              Cardinality({x \in SliderSquares(Board, result.color)
                                  \X (Diagonals \cup Orthogonals) :
                             /\ x[2] \in MoveDirections(PieceOn(Board, x[1]).piece_type)
                             /\ DiscoveryOn(Board, result.color, x[1], x[2])})

\* A bishop on b2 stands behind a piece of its own on c3, with an enemy piece
\* on d4: one discovery.
C20_Witness ==
    /\ result.op = "find_discoveries"
    /\ Len(result.value) = 1
    /\ result.value[1].hidden_attacker \in {"B", "b"}
    /\ result.value[1].hidden_square = <<"b", "2">>
    /\ result.value[1].blocking_square = <<"c", "3">>
    /\ result.value[1].target_square = <<"d", "4">>

(***************************************************************************)
(* get_reachable_squares, called for the piece of the board that stands    *)
(* on from_sq.                                                             *)
(***************************************************************************)

\* result = get_reachable_squares(board, from_sq, board.get(from_sq))
GetReachableSquares(from_sq) ==
    /\ result = Idle
    /\ Occupied(Board, from_sq)
    /\ result' = [op |-> "get_reachable_squares", from_sq |-> from_sq,
                  piece |-> PieceOn(Board, from_sq),
                  value |-> get_reachable_squares(Board, from_sq, PieceOn(Board, from_sq))]
    /\ UNCHANGED <<boards, dicts, after_board>>

NextReachable ==
    \/ \E from_sq \in Squares : GetReachableSquares(from_sq)
    \/ Discard

SpecReachable == InitTactics /\ [][NextReachable]_vars

\* The squares a slider of colour c on s reaches along direction d: the empty
\* squares before the first occupied square, and that square when it holds a
\* piece of the other colour.
SlideReach(b, c, s, d) ==
    {t \in {RaySquare(s, d, i) : i \in 1..7} \ {NoSquare} :
        \/ /\ ~Occupied(b, t)
           /\ \A j \in 1..7 :
                  (RaySquare(s, d, j) /= NoSquare /\ Occupied(b, RaySquare(s, d, j)))
                  => \E i \in 1..(j - 1) : RaySquare(s, d, i) = t
        \/ /\ t = FirstOccupant(b, s, d)
           /\ PieceOn(b, t).color /= c}

Forward(c) == IF c = WHITE THEN 1 ELSE -1

\* The rank index on which the pawns of colour c start.
StartingRank(c) == IF c = WHITE THEN 1 ELSE 6

\* t is on the board and empty.
Vacant(b, t) == t /= NoSquare /\ ~Occupied(b, t)

\* C22: for a pawn, get_reachable_squares contains the square one step forward
\* if and only if it is empty, the square two steps forward if and only if the
\* pawn is on its colour's starting rank and both the intermediate and the
\* destination square are empty, each forward-diagonal square if and only if
\* it holds a piece of the opposite colour, and nothing else.
C22_PawnMoves ==
    (result /= Idle /\ result.op = "get_reachable_squares"
        /\ result.piece.piece_type = PAWN) =>
        \A s \in {result.from_sq} : \A c \in {result.piece.color} :
            \A one \in {RaySquare(s, <<0, Forward(c)>>, 1)} :
            \A two \in {RaySquare(s, <<0, Forward(c)>>, 2)} :
            \A diagonal \in {{RaySquare(s, <<-1, Forward(c)>>, 1),
                              RaySquare(s, <<1, Forward(c)>>, 1)} \ {NoSquare}} :
                /\ (one /= NoSquare) => (one \in result.value <=> Vacant(Board, one))
                /\ (two /= NoSquare) =>
                      (two \in result.value <=>
                          /\ s \div 8 = StartingRank(c)
                          /\ Vacant(Board, one)
                          /\ Vacant(Board, two))
                /\ \A t \in diagonal :
                      t \in result.value <=>
                          (Occupied(Board, t) /\ PieceOn(Board, t).color /= c)
                /\ result.value \subseteq ({one, two} \cup diagonal) \ {NoSquare}

\* A white pawn on c2 with c3 empty and a white piece on c4: the single step
\* is in, the double step is out.
C22_Witness ==
    /\ result /= Idle /\ result.op = "get_reachable_squares"
    /\ result.from_sq = 10
    /\ result.piece = [piece_type |-> PAWN, color |-> WHITE]
    /\ ~Occupied(Board, 18)
    /\ Occupied(Board, 26)
    /\ result.value = {18}

(***************************************************************************)
(* The material value of a piece of the board, as each of the two modules  *)
(* that hold a PIECE_VALUES table gives it.                                *)
(***************************************************************************)

\* result = (tactics.get_piece_value(piece), analyze_move.get_piece_value(piece))
\* for the piece on on.
GetPieceValue(on) ==
    /\ result = Idle
    /\ Occupied(Board, on)
    /\ result' = [op |-> "get_piece_value", square |-> on,
                  piece |-> PieceOn(Board, on),
                  tactical |-> tactics_get_piece_value(PieceOn(Board, on)),
                  exchange |-> get_piece_value(PieceOn(Board, on))]
    /\ UNCHANGED <<boards, dicts, after_board>>

NextValues ==
    \/ \E on \in Squares : GetPieceValue(on)
    \/ Discard

SpecValues == InitTactics /\ [][NextValues]_vars

\* The values the two tables share.
MinorValues == [p |-> 1, n |-> 3, b |-> 3, r |-> 5, q |-> 9]

\* C23 as stated: every piece type, the king included, has the same value in
\* the tactical pattern detector as in the move pre-analysis.
C23_OneValuePerPieceType ==
    (result /= Idle /\ result.op = "get_piece_value") =>
        /\ result.tactical = result.exchange
        /\ result.piece.piece_type /= KING =>
              result.tactical = MinorValues[result.piece.piece_type]

\* C23, amended: pawn, knight, bishop, rook and queen are worth 1, 3, 3, 5 and
\* 9 in both modules; the king is worth 100 in the tactical pattern detector
\* and 1000 in the move pre-analysis.
C23_KingValuePerModule ==
    (result /= Idle /\ result.op = "get_piece_value") =>
        IF result.piece.piece_type = KING
        THEN result.tactical = 100 /\ result.exchange = 1000
        ELSE /\ result.tactical = MinorValues[result.piece.piece_type]
             /\ result.exchange = MinorValues[result.piece.piece_type]

\* The value of a king has been asked of both modules.
C23_Witness ==
    /\ result /= Idle /\ result.op = "get_piece_value"
    /\ result.piece.piece_type = KING
    /\ result.tactical /= result.exchange

(***************************************************************************)
(* The ray walks of the seven functions, iteration by iteration, from      *)
(* every square and in every direction, on two example positions, on the  *)
(* empty board and on a board no game can reach.                           *)
(***************************************************************************)

\* Pawns on the first and last ranks, two black kings and no white king.
MALFORMED_FEN ==
    <<<<"P", "P", "P", "P", "P", "P", "P", "P", "/", "8", "/", "8", "/", "k", "6", "k", "/", "8", "/", "3", "Q", "4", "/", "8", "/", "p", "p", "p", "p", "p", "p", "p", "p">>,
      "w", "-", <<"-">>, <<"0">>, <<"1">>>>

EMPTY_FEN == PlacementFen(<<>>)

InitWalk == \E fen \in {TACTICS_FEN, PIN_FEN, MALFORMED_FEN, EMPTY_FEN} : Load(fen)

\* current = start before the while loop of the function loop, for the
\* direction (dx, dy); color is the argument of find_discoveries.
BeginWalk(loop, color, start, dx, dy) ==
    /\ result = Idle
    /\ result' = [op |-> "ray_walk", loop |-> loop, color |-> color, start |-> start,
                  dx |-> dx, dy |-> dy, seen |-> start, steps |-> 0,
                  first |-> NoSquare, ended |-> "running"]
    /\ UNCHANGED <<boards, dicts, after_board>>

\* One iteration of the while loop.
WalkStep ==
    /\ result.op = "ray_walk"
    /\ result.ended = "running"
    /\ result' = LoopBody(Board, result)
    /\ UNCHANGED <<boards, dicts, after_board>>

\* The statement after the loop: the walk's variables are dropped.
EndWalk ==
    /\ result.op = "ray_walk"
    /\ result.ended /= "running"
    /\ Discard

NextWalk ==
    \/ \E loop \in FirstOccupantWalks \cup SecondOccupantWalks, start \in Squares,
          d \in Diagonals \cup Orthogonals :
            BeginWalk(loop, NoColor, start, d[1], d[2])
    \/ \E color \in Colors, start \in Squares, d \in Diagonals \cup Orthogonals :
            BeginWalk("find_discoveries", color, start, d[1], d[2])
    \/ WalkStep
    \/ EndWalk

\* The interpreter runs the next iteration of a loop it is in.
SpecWalk == InitWalk /\ [][NextWalk]_vars /\ WF_vars(WalkStep)

\* A walk is at its steps-th square of the ray, which is on the board; it has
\* taken at most 7 steps; it was left at the edge only with the next square
\* off the board, and at an occupant only with a piece on the square seen.
WalkWithinBoard ==
    result.op = "ray_walk" =>
        /\ result.steps <= 7
        /\ result.seen = RaySquare(result.start, <<result.dx, result.dy>>, result.steps)
        /\ result.seen /= NoSquare
        /\ result.ended = "edge" =>
              RaySquare(result.start, <<result.dx, result.dy>>, result.steps + 1) = NoSquare
        /\ result.ended = "occupant" => (result.steps >= 1 /\ Occupied(Board, result.seen))

Walking == result.op = "ray_walk" /\ result.ended = "running"

WalkEnded == result.op = "ray_walk" /\ result.ended \in {"edge", "occupant"}

\* C24: every ray walk of get_attackers, get_attacked_by_piece,
\* get_reachable_squares, get_attacks_from_square, find_pins, find_skewers and
\* find_discoveries ends, after at most 7 steps, by leaving the board or by
\* meeting an occupant, on every board and from every start square.
C24_RayWalksTerminate == [](WalkWithinBoard) /\ (Walking ~> WalkEnded)

\* A walk of find_pins from a1 along the long diagonal of a board with at most
\* one piece on it: it took 7 steps and was left at the edge behind h8.
C24_Witness ==
    /\ result.op = "ray_walk"
    /\ result.loop = "find_pins"
    /\ result.start = 0 /\ result.dx = 1 /\ result.dy = 1
    /\ result.steps = 7
    /\ result.seen = 63
    /\ result.ended = "edge"

\* C25: in every record of find_pins the protected piece is worth strictly
\* more than the pinned piece (protected_value > pinned_value), and the pinned
\* piece is never a king.
C25_PinnedPieceWorthLess ==
    (result.op = "find_pins") =>
        \A i \in 1..Len(result.value) :
            /\ result.value[i].protected_value > result.value[i].pinned_value
            /\ result.value[i].pinned_piece \notin {"K", "k"}

\* White rook c2, white queen c3, black rook c4: find_pins(White) reports the
\* queen as pinned in front of the rook.
C25_Witness ==
    /\ result.op = "find_pins"
    /\ result.color = WHITE
    /\ Board.pieces.vals = (sq(<<"c", "2">>) :> Piece(ROOK, WHITE))
                            @@ (sq(<<"c", "3">>) :> Piece(QUEEN, WHITE))
                            @@ (sq(<<"c", "4">>) :> Piece(ROOK, BLACK))
    /\ Len(result.value) = 1
    /\ result.value[1].pinned_piece = "Q"
    /\ result.value[1].pinned_value = 9
    /\ result.value[1].protected_piece = "R"
    /\ result.value[1].protected_value = 5
    /\ result.value[1].pinning_square = <<"c", "4">>

(***************************************************************************)
(* The two per-piece attack projectors, asked about the same piece on the  *)
(* same square, whether or not the piece stands there.                     *)
(***************************************************************************)

\* result = (attacks.get_attacked_by_piece(board, from_square, piece),
\*           tactics.get_attacks_from_square(board, from_square, piece))
ProjectPiece(from_square, piece) ==
    /\ result = Idle
    /\ result' = [op |-> "project_piece", from_square |-> from_square, piece |-> piece,
                  attacked |-> get_attacked_by_piece(Board, from_square, piece),
                  attacks |-> get_attacks_from_square(Board, from_square, piece)]
    /\ UNCHANGED <<boards, dicts, after_board>>

NextProjectors ==
    \/ \E from_square \in QuerySquares, piece \in AllPieces :
           ProjectPiece(from_square, piece)
    \/ Discard

SpecProjectors == Init /\ [][NextProjectors]_vars

\* C26: for every board, every square and every piece, get_attacked_by_piece
\* and get_attacks_from_square return the same set of squares, whether or not
\* the piece stands on the square.
C26_ProjectorsAgree ==
    (result.op = "project_piece") => result.attacked = result.attacks

\* A queen asked about on the empty a1 of a board with a piece on b2: both
\* projectors stop the diagonal at b2 and run the first rank to h1.
C26_Witness ==
    /\ result.op = "project_piece"
    /\ result.from_square = 0
    /\ result.piece = Piece(QUEEN, BLACK)
    /\ ~Occupied(Board, 0)
    /\ Occupied(Board, 9)
    /\ 9 \in result.attacks /\ 18 \notin result.attacks
    /\ 7 \in result.attacks
    /\ result.attacked = result.attacks

(***************************************************************************)
(* The two classifiers asked about one square, and the two lists of loose  *)
(* pieces asked for one colour.                                            *)
(***************************************************************************)

\* result = (is_hanging(board, target), is_protected(board, target))
ClassifySquare(target) ==
    /\ result = Idle
    /\ result' = [op |-> "classify_square", target |-> target,
                  hanging |-> is_hanging(Board, target),
                  protected |-> is_protected(Board, target)]
    /\ UNCHANGED <<boards, dicts, after_board>>

\* result = (find_hanging_pieces(board, color), find_undefended_pieces(board, color))
FindLoosePieces(color) ==
    /\ result = Idle
    /\ result' = [op |-> "find_loose_pieces", color |-> color,
                  hanging |-> find_hanging_pieces(Board, color),
                  undefended |-> find_undefended_pieces(Board, color)]
    /\ UNCHANGED <<boards, dicts, after_board>>

NextLoose ==
    \/ \E target \in QuerySquares : ClassifySquare(target)
    \/ \E color \in Colors : FindLoosePieces(color)
    \/ Discard

SpecLoose == InitTactics /\ [][NextLoose]_vars

\* The items of a list.
Items(list) == {list[i] : i \in 1..Len(list)}

\* C27: no square is both hanging and protected, and every piece returned by
\* find_hanging_pieces(board, color) is returned by
\* find_undefended_pieces(board, color).
C27_HangingIsUnprotectedAndUndefended ==
    /\ (result.op = "classify_square") => (result.hanging => ~result.protected)
    /\ (result.op = "find_loose_pieces") =>
           Items(result.hanging) \subseteq Items(result.undefended)

\* A colour with two undefended pieces of which one is attacked: the hanging
\* list holds that one, the undefended list both.
C27_Witness ==
    /\ result.op = "find_loose_pieces"
    /\ Len(result.hanging) = 1
    /\ Len(result.undefended) = 2
    /\ result.hanging[1] \in Items(result.undefended)
    /\ is_hanging(Board, result.hanging[1][1])
    /\ ~is_protected(Board, result.hanging[1][1])

(***************************************************************************)
(* analyze_square and the stand-alone classifiers.                         *)
(***************************************************************************)

\* result = analyze_square(board, target)
AnalyzeSquare(target) ==
    /\ result = Idle
    /\ result' = [op |-> "analyze_square", target |-> target,
                  value |-> analyze_square(Board, target)]
    /\ UNCHANGED <<boards, dicts, after_board>>

NextSquare ==
    \/ \E target \in QuerySquares : AnalyzeSquare(target)
    \/ Discard

SpecSquare == InitTactics /\ [][NextSquare]_vars

\* C28: the is_hanging flag of analyze_square equals is_hanging(board, S), its
\* is_protected flag equals is_protected(board, S), its defenders list is
\* get_defenders(board, S), and its white_attackers and black_attackers lists
\* are get_attackers filtered by White and by Black: the same pieces in the
\* same order, each given by the name of its square and its letter.
C28_AnalyzeSquareAgrees ==
    (result.op = "analyze_square") =>
        /\ result.value.is_hanging = is_hanging(Board, result.target)
        /\ result.value.is_protected = is_protected(Board, result.target)
        /\ result.value.defenders = Named(get_defenders(Board, result.target))
        /\ result.value.white_attackers = Named(get_attackers(Board, result.target, WHITE))
        /\ result.value.black_attackers = Named(get_attackers(Board, result.target, BLACK))

\* A white piece on c3 attacked from d4 by a black bishop and undefended:
\* analyze_square and is_hanging both call it hanging.
C28_Witness ==
    /\ result.op = "analyze_square"
    /\ result.target = 18
    /\ Occupied(Board, 18) /\ PieceOn(Board, 18).color = WHITE
    /\ result.value.is_hanging /\ is_hanging(Board, 18)
    /\ ~result.value.is_protected
    /\ result.value.black_attackers = <<<<<<"d", "4">>, "b">>>>
    /\ result.value.white_attackers = <<>>
    /\ result.value.defenders = <<>>

\* C29: get_attackers with no colour filter returns exactly the records
\* returned with filter White together with those returned with filter Black;
\* a filtered result holds only pieces of the filter colour; and no
\* (square, piece) record appears twice in a result.
C29_FilterPartitionsAttackers ==
    (result.op = "get_attackers") =>
        /\ Cardinality(Items(result.value)) = Len(result.value)
        /\ result.by_color \in Colors =>
              \A i \in 1..Len(result.value) : result.value[i][2].color = result.by_color
        /\ result.by_color = NoColor =>
              \A white \in {get_attackers(Board, result.target, WHITE)} :
              \A black \in {get_attackers(Board, result.target, BLACK)} :
                  /\ Items(result.value) = Items(white) \cup Items(black)
                  /\ Len(result.value) = Len(white) + Len(black)

\* c3 attacked by a white piece and by a black piece: the unfiltered scan
\* returns both, and each filtered scan one of them.
C29_Witness ==
    /\ result.op = "get_attackers"
    /\ result.by_color = NoColor
    /\ result.target = 18
    /\ Len(result.value) = 2
    /\ Len(get_attackers(Board, 18, WHITE)) = 1
    /\ Len(get_attackers(Board, 18, BLACK)) = 1
    /\ result.value[1][2].color /= result.value[2][2].color

====
